---- MODULE Spec2Model ----
(***************************************************************************)
(* A model of the multi-agent orchestrator blueprint                       *)
(* (blueprints/python/multi-agent-orchestrator/agent_executor.py).         *)
(*                                                                         *)
(* One coordination run is one call of OrchestratorExecutor.execute on one *)
(* event queue (the sink).  cancel is a second entry point on the same     *)
(* sink and may be called at any moment.  Every `await` of the code is a   *)
(* point where another coroutine may run, so every action below ends at an *)
(* await.  The remote agents (A2AClient.execute_task) are the environment: *)
(* each produces a finite stream of events and then either ends or raises. *)
(*                                                                         *)
(* Specifications:                                                         *)
(*   Spec        one run of OrchestratorExecutor.execute, with cancel      *)
(*   HandleSpec  callers of SubAgent.get_client and get_card side by side  *)
(*   PairSpec    two calls of execute on one OrchestratorExecutor          *)
(*   LLMSpec     calls of LLMOrchestratorExecutor.execute and cancel       *)
(*   ToolSpec    one run of ToolUsingAgentExecutor.execute, with cancel    *)
(*               (blueprints/python/tool-using-agent/agent_executor.py)    *)
(*   SimpleSpec  SimpleAgentExecutor and StreamingAgentExecutor, one call  *)
(*               of execute each, with cancel                              *)
(*               (blueprints/python/simple-agent/agent_executor.py)        *)
(*   RegistrySpec  lookups on one ToolRegistry                             *)
(*   DiceSpec    calls of roll_dice (tool-using-agent/tools.py)            *)
(*   PrimeSpec   calls of is_prime (tool-using-agent/tools.py)             *)
(***************************************************************************)
EXTENDS Integers, Sequences, FiniteSets, TLC

\* ----------------------------------------------------------------- bounds

\* Events that the remote agents produce in one run, all agents together.
MaxEvents == 2
\* Words in a task instruction given to the tool-using agent.
MaxWords == 2
\* Calls of cancel on the run's sink.
MaxCancels == 1
\* Words in a message given to the simple agent.
MaxPhrase == 2
\* Lookups made on one tool registry.
MaxLookups == 3
\* The largest sides and the largest count below the limit that roll_dice
\* is called with.
MaxSides == 4
MaxCount == 3
\* The largest number is_prime is called with.
MaxNumber == 60
\* Names in a list that an agent selection returns.
MaxSelected == 2
\* Callers that use the SubAgent handles side by side, and the calls they
\* make, all callers together.
MaxCallers == 2
MaxCalls == 3

\* The sub_agent_urls dictionaries an orchestrator is constructed with, as
\* their keys in insertion order.
AgentConfigs == { <<>>, <<"a">>, <<"a", "b">> }

AgentNames == {"a", "b"}

\* The address each name is configured with.
UrlOf(w) == IF w = "a" THEN "http://localhost:10001" ELSE "http://localhost:10002"

\* context.task_instruction of the run.
UserMessage == "task"

\* Two calls of execute on one executor, and the task of each.
RunIds == {1, 2}

TaskOf(r) == IF r = 1 THEN "task one" ELSE "task two"

Callers == 1..MaxCallers

\* Words a task instruction is made of, each as its characters.
Vocabulary ==
    { << "T", "o", "o", "l", " ", "1" >>,
      << "E", "X", "A", "M", "P", "L", "E", " ", "1" >>,
      << "t", "o", "o", "l", " ", "2" >>,
      << "e", "x", "a", "m", "p", "l", "e", " ", "2" >>,
      << "A", "P", "I" >>,
      << "r", "e", "c", "a", "l", "l" >>,
      << "l", "i", "s", "t", " ", "t", "o", "o", "l", "s" >>,
      << "W", "h", "a", "t", " ", "c", "a", "n", " ", "y", "o", "u", " ", "d", "o" >>,
      << "h", "e", "l", "l", "o" >> }

\* Words a message to the simple agent is made of, each as its characters.
SimpleVocabulary ==
    { << "H", "e", "l", "l", "o" >>,
      << "H", "E", "L", "P" >>,
      << "s", "h", "e", "l", "f" >> }

\* The executor classes of the simple agent blueprint.
SimpleExecutors == {"SimpleAgentExecutor", "StreamingAgentExecutor"}

\* ToolRegistry.__init__, lines 83-108: the registered names, in order.
DefaultTools == << "tool_example_1", "tool_example_2", "api_call" >>

\* ToolRegistry.__init__, lines 83-108: self.tools, in insertion order, each
\* entry with the function it holds and its description.
RegisteredTools ==
    << [name |-> "tool_example_1", function |-> "tool_example_1",
        description |-> "Example tool that does something"],
       [name |-> "tool_example_2", function |-> "tool_example_2",
        description |-> "Example tool that returns structured data"],
       [name |-> "api_call", function |-> "tool_api_call",
        description |-> "Make an API call"] >>

\* The names a lookup is made with: the registered ones, one that differs
\* in case, and a function of tools.py that the registry does not hold.
LookupNames ==
    { "tool_example_1", "tool_example_2", "api_call", "Tool_Example_1", "roll_dice" }

\* roll_dice, line 31: the most dice one call rolls.
DiceLimit == 100

\* The orchestration pattern _orchestrate_task is wired to.
Modes == {"SEQUENTIAL", "PARALLEL", "ROUTED", "ITERATIVE"}

\* ------------------------------------------------------------ state

VARIABLES
    sub_agents,     \* self.sub_agents: the keys, in insertion order
    mode,           \* the pattern _orchestrate_task returns
    pc,             \* where execute is
    sink,           \* the event queue: every event enqueued so far, in order
    idx,            \* the loop position of the running pattern
    results,        \* the pattern's `results` (dict keys / list), in order
    selected,       \* _conditional_orchestration's selected_agents
    wstate,         \* per agent: where its execute_task coroutine is
    event,          \* per agent: the `event` variable of the async for
    gathered,       \* per agent: its slot in asyncio.gather's result list
    err,            \* the exception travelling to / caught by execute
    result,         \* the value _orchestrate_task returned
    cancels,        \* calls of cancel so far
    invoked,        \* history: agents whose invocation has begun, in order
    cancelInvoked,  \* history: Len(invoked) when cancel was first called, else -1
    cancelPc,       \* history: where execute was when cancel was first called
    produced,       \* history: per agent, the events its stream has produced
    built,          \* history: the instructions built, with what they were built from
    satisfiedAt,    \* the round in which _is_result_satisfactory first says True (0: never)
    client,         \* per agent: SubAgent._client (0: None, else the object's serial)
    created,        \* per agent: A2AClient objects constructed so far
    card,           \* per agent: SubAgent._card (0: None, else the fetch's serial)
    fetches,        \* per agent: get_agent_card requests sent so far
    hpc,            \* per caller of a handle: where its call is
    hgot,           \* history: per caller, the values its calls returned
    sub_agent_urls, \* the dictionary __init__ was called with, in insertion order
    url,            \* per agent: SubAgent.url
    runs,           \* per call of execute on one executor: that call's locals and sink
    storedAt,       \* history: per agent, the requests sent when _card was last assigned
    lrun,           \* per call of LLMOrchestratorExecutor.execute: its position and sink
    task_instruction,        \* ToolUsingAgentExecutor: context.task_instruction, as its characters
    faulty,         \* the tools whose implementation raises when called
    tpc,            \* where ToolUsingAgentExecutor.execute is
    tsink,          \* the event queue of that call
    tresult,        \* what _process_with_tools returned
    terr,           \* the exception execute's handler caught
    tcancels,       \* calls of ToolUsingAgentExecutor.cancel so far
    agent_executor, \* the executor class the simple agent's server is built with
    simple,         \* the call of SimpleAgentExecutor.execute: position, sink, cancels
    streaming,      \* the call of StreamingAgentExecutor.execute: position, loop index, sink, cancels
    tools,          \* ToolRegistry.tools: the entries, in insertion order
    lookups,        \* history: the lookups made on the registry, with their outcomes
    sides,          \* roll_dice: the argument sides
    count,          \* roll_dice: the argument count
    rolled,         \* what the call of roll_dice returned or raised
    number,         \* is_prime: the argument number
    primality       \* what the call of is_prime returned

vars == << sub_agents, mode, pc, sink, idx, results, selected, wstate,
           event, gathered, err, result, cancels, invoked, cancelInvoked,
           cancelPc, produced, built, satisfiedAt, client, created, card,
           fetches, hpc, hgot, sub_agent_urls, url, runs, storedAt, lrun,
           task_instruction, faulty, tpc, tsink, tresult, terr, tcancels,
           agent_executor, simple, streaming, tools, lookups, sides, count, rolled, number,
           primality >>

\* The state of the callers that use a SubAgent handle directly.
handleVars == << card, fetches, hpc, hgot, storedAt >>

\* The tool-using agent: one call of its execute, and its tools.
toolVars == << task_instruction, faulty, tpc, tsink, tresult, terr, tcancels >>

\* What the constructor was given and the addresses it stored.
configVars == << sub_agent_urls, url >>

\* The simple and the streaming agent: one call of execute each.
simpleVars == << agent_executor, simple, streaming >>

\* The tool registry and the lookups made on it.
registryVars == << tools, lookups >>

\* The calls of the tool functions roll_dice and is_prime.
functionVars == << sides, count, rolled, number, primality >>

\* The state no step of an orchestrator run or of a handle's caller touches.
otherVars == << configVars, runs, lrun, toolVars, simpleVars, registryVars,
               functionVars >>

\* ------------------------------------------------------------ values

\* str(e) of an exception: what kind it is and which agents it names.
NoError == [kind |-> "", who |-> <<>>]

\* The exception a failing invocation of agent w raises (client.execute_task
\* or A2AClient(url) raising inside SubAgent.execute_task).
WorkerError(w) == [kind |-> "WorkerError", who |-> <<w>>]

\* A returned string: its fixed text, the names joined into it, a number.
NoResult == [text |-> "", names |-> <<>>, n |-> 0]

\* AgentExecutionStateEvent(state, description).  src is a history label
\* (who enqueued the event); the code attaches no origin to an event.
StateEvent(state, text, e, src) ==
    [type |-> "Status", state |-> state, text |-> text, names |-> <<>>,
     n |-> 0, err |-> e, src |-> src]

\* AgentExecutionTextEvent(text).
TextEvent(text, names, n, src) ==
    [type |-> "Text", state |-> "", text |-> text, names |-> names,
     n |-> n, err |-> NoError, src |-> src]

\* The events a remote agent can produce as the k-th of its stream.
WorkerEvents(w, k) ==
    { TextEvent("chunk", <<w>>, k, w),
      [StateEvent("COMPLETED", "worker done", NoError, w) EXCEPT !.n = k],
      [StateEvent("FAILED", "worker failed", NoError, w) EXCEPT !.n = k] }

TerminalStates == {"COMPLETED", "FAILED", "CANCELLED"}

IsTerminal(ev) == ev.type = "Status" /\ ev.state \in TerminalStates

\* ------------------------------------------------------------ helpers

Range(s) == { s[i] : i \in 1..Len(s) }

Last(s) == s[Len(s)]

\* d[k] = v on a dict whose keys are kept in insertion order.
DictSet(keys, k) == IF k \in Range(keys) THEN keys ELSE Append(keys, k)

\* The lengths of the sequences f[x], x in S, added up.
RECURSIVE SumLen(_, _)
SumLen(f, S) ==
    IF S = {} THEN 0
    ELSE LET w == CHOOSE x \in S : TRUE
         IN  Len(f[w]) + SumLen(f, S \ {w})

\* Events the remote agents have produced in this run.
TotalProduced == SumLen(produced, AgentNames)

\* _build_instruction_for_agent: the simple example passes the message on.
BuildInstructionForAgent(agent_name, original_message, previous_results) ==
    original_message

\* _select_agents_for_task: the simple example uses all agents.
SelectAgentsForTask == sub_agents

\* The names a selection can return: the keyword example (lines 352-358)
\* returns fixed names, configured or not.
RouteNames == AgentNames \cup {"general_agent"}

\* The lists an implementation of _select_agents_for_task can return: the
\* simple example's, and every list of at most MaxSelected names.
Selections ==
    {SelectAgentsForTask} \cup
    UNION { [1..n -> RouteNames] : n \in 0..MaxSelected }

\* A variant of ShouldStopExecution that never stops.
ShouldStopExecutionNever(res) == FALSE

\* _should_stop_execution: stop after first success.
ShouldStopExecution(res) == Len(res) >= 1

\* _is_result_satisfactory: the example always says False (satisfiedAt = 0);
\* an implemented quality check first says True in round satisfiedAt.
IsResultSatisfactory(r) == satisfiedAt # 0 /\ idx >= satisfiedAt

max_iterations == 3

\* A variant of SynthesizeResults that joins the keys newest first.
SynthesizeResultsReversed(res) ==
    [text |-> "Orchestration completed. Agents executed: ",
     names |-> [i \in 1..Len(res) |-> res[Len(res) + 1 - i]], n |-> 0]

\* _synthesize_results: the keys of results, joined in insertion order.
SynthesizeResults(res) ==
    [text |-> "Orchestration completed. Agents executed: ", names |-> res, n |-> 0]

\* A call of execute that has not run yet: its position, its sink (with,
\* as history, the call that enqueued each event), the locals of
\* _sequential_orchestration and of the execute_task it awaits.
StartRun ==
    [pc |-> "start", sink |-> <<>>, from |-> <<>>, idx |-> 1, results |-> <<>>,
     result |-> NoResult, err |-> NoError, wst |-> "idle",
     event |-> TextEvent("", <<>>, 0, ""), nprod |-> 0, built |-> <<>>]

\* A call of LLMOrchestratorExecutor.execute that has not run yet: its
\* position, the loop index of _get_agent_descriptions, the serial of the
\* request it waits for, its sink, the exception that left it, and the
\* calls of cancel on its sink.
StartLLMRun ==
    [pc |-> "start", idx |-> 1, n |-> 0, sink |-> <<>>, err |-> NoError,
     cancels |-> 0]

\* A call of ToolUsingAgentExecutor.execute that has not run yet.
ToolStart ==
    /\ tpc = "start"
    /\ tsink = <<>>
    /\ tresult = NoResult
    /\ terr = NoError
    /\ tcancels = 0

\* A call of SimpleAgentExecutor.execute that has not run yet: its
\* position, its sink and the calls of cancel on that sink.
StartSimple == [pc |-> "start", sink |-> <<>>, cancels |-> 0]

\* A call of StreamingAgentExecutor.execute that has not run yet: its
\* position, the index of the word loop, its sink and the calls of cancel.
StartStreaming == [pc |-> "start", i |-> 1, sink |-> <<>>, cancels |-> 0]

\* No call of roll_dice or is_prime has been made.
NoOutcome == [kind |-> "none", rolls |-> <<>>, total |-> 0, count |-> 0,
              sides |-> 0, average |-> << 0, 1 >>, error |-> ""]

NoVerdict == [kind |-> "none", number |-> 0, is_prime |-> FALSE, divisor |-> 0,
              reason |-> ""]

\* The arguments of the tool functions when no specification calls them:
\* roll_dice's defaults (line 16) and the smallest prime.
DefaultArguments ==
    /\ sides = 6
    /\ count = 1
    /\ number = 2

\* ------------------------------------------------------------ initial state

\* Everything but the configuration, the tool-using agent and the arguments
\* of the tool functions, as constructed.
InitRun ==
    /\ pc = "start"
    /\ sink = <<>>
    /\ idx = 1
    /\ results = <<>>
    /\ selected = <<>>
    /\ wstate = [w \in AgentNames |-> "idle"]
    /\ event = [w \in AgentNames |-> TextEvent("", <<>>, 0, "")]
    /\ gathered = [w \in AgentNames |-> "none"]
    /\ err = NoError
    /\ result = NoResult
    /\ cancels = 0
    /\ invoked = <<>>
    /\ cancelInvoked = -1
    /\ cancelPc = "none"
    /\ produced = [w \in AgentNames |-> <<>>]
    /\ built = <<>>
    /\ satisfiedAt \in (IF mode = "ITERATIVE" THEN 0..max_iterations ELSE {0})
    /\ client = [w \in AgentNames |-> 0]
    /\ created = [w \in AgentNames |-> 0]
    /\ card = [w \in AgentNames |-> 0]
    /\ fetches = [w \in AgentNames |-> 0]
    /\ hpc = [c \in Callers |-> [at |-> "idle", w |-> "", n |-> 0]]
    /\ hgot = [c \in Callers |-> <<>>]
    /\ sub_agent_urls = [i \in 1..Len(sub_agents) |->
                            [name |-> sub_agents[i], url |-> UrlOf(sub_agents[i])]]
    /\ url = [w \in AgentNames |->
                 IF w \in Range(sub_agents) THEN UrlOf(w) ELSE ""]
    /\ runs = [r \in RunIds |-> StartRun]
    /\ storedAt = [w \in AgentNames |-> 0]
    /\ lrun = [r \in RunIds |-> StartLLMRun]
    /\ simple = StartSimple
    /\ streaming = StartStreaming
    /\ tools = RegisteredTools
    /\ lookups = <<>>
    /\ rolled = NoOutcome
    /\ primality = NoVerdict

Init ==
    /\ sub_agents \in AgentConfigs
    /\ mode \in Modes
    /\ InitRun
    /\ task_instruction = <<>>
    /\ faulty = {}
    /\ ToolStart
    /\ agent_executor = "SimpleAgentExecutor"
    /\ DefaultArguments

\* ------------------------------------------------------------ building blocks

\* await event_queue.enqueue_event(ev)
Enqueue(ev) == sink' = Append(sink, ev)

\* A variant of Catch with no handler: the exception leaves execute.
CatchPropagates(e) == pc' = "propagated" /\ err' = e

\* execute's `except Exception as e`: an exception raised inside the try
\* block is bound to e and control moves to the handler.
Catch(e) == pc' = "except" /\ err' = e

\* _orchestrate_task: the pattern the run enters.
OrchestrateTask ==
    CASE mode = "SEQUENTIAL" -> "seq_loop"
      [] mode = "PARALLEL"   -> "par_announce"
      [] mode = "ROUTED"     -> "route_select"
      [] mode = "ITERATIVE"  -> "iter_loop"

\* A variant of ClientAfter without the memo: every call constructs.
ClientAfterNoMemo(w) == created[w] + 1

\* SubAgent.get_client, lines 35-37: self._client after the call, which is
\* also what the call returns.  The method has no await: it runs as one step.
ClientAfter(w) == IF client[w] = 0 THEN created[w] + 1 ELSE client[w]

\* get_client's effect on the handle w.
GetClient(w) ==
    /\ client' = [client EXCEPT ![w] = ClientAfter(w)]
    /\ created' = [created EXCEPT ![w] =
                      IF ClientAfter(w) > created[w] THEN ClientAfter(w) ELSE @]

\* An instruction string: the message and the agent name appended to it.
Instruction(message, handled_by) ==
    [message |-> message, handled_by |-> handled_by]

\* The call agent.execute_task(...) starting to run: get_client, then the
\* request to the remote agent.
StartTask(w) ==
    /\ wstate' = [wstate EXCEPT ![w] = "streaming"]
    /\ invoked' = Append(invoked, w)
    /\ GetClient(w)

\* A variant of GatherDone for gather without return_exceptions: the first
\* exception ends the wait while the other tasks are still running.
GatherDoneFirstException ==
    \/ \A w \in Range(sub_agents) : gathered[w] # "none"
    \/ \E w \in Range(sub_agents) : gathered[w] = "Exception"

\* asyncio.gather(*tasks, return_exceptions=True) has a result for every task.
GatherDone == \A w \in Range(sub_agents) : gathered[w] # "none"

IsException(w) == gathered[w] = "Exception"

\* A variant of GatherErrors that keeps only the first exception.
GatherErrorsFirst ==
    IF SelectSeq(sub_agents, IsException) = <<>> THEN <<>>
    ELSE << SelectSeq(sub_agents, IsException)[1] >>

\* errors = [r for r in results if isinstance(r, Exception)], as the agents
\* whose task raised, in task order.
GatherErrors == SelectSeq(sub_agents, IsException)

\* ------------------------------------------------------------ execute

\* A variant of ExecuteStart that enters the try block without the THINKING
\* event.
ExecuteStartSilent ==
    /\ pc = "start"
    /\ pc' = OrchestrateTask
    /\ UNCHANGED << sub_agents, mode, sink, idx, results, selected, wstate,
                    event, gathered, err, result, cancels, invoked,
                    cancelInvoked, cancelPc, produced,
                    built, satisfiedAt, client, created, handleVars, otherVars >>

\* execute, lines 102-109: the THINKING event, then into the try block.
ExecuteStart ==
    /\ pc = "start"
    /\ Enqueue(StateEvent("THINKING",
                          "Analyzing task and planning agent coordination...",
                          NoError, "execute"))
    /\ pc' = OrchestrateTask
    /\ UNCHANGED << sub_agents, mode, idx, results, selected, wstate, event,
                    gathered, err, result, cancels, invoked, cancelInvoked, cancelPc,
                    produced,
                    built, satisfiedAt, client, created, handleVars, otherVars >>

\* A variant of EmitResult that goes on to COMPLETED without the Text event.
EmitResultSkipped ==
    /\ pc = "emit_result"
    /\ pc' = "emit_completed"
    /\ UNCHANGED << sub_agents, mode, sink, idx, results, selected, wstate,
                    event, gathered, err, result, cancels, invoked,
                    cancelInvoked, cancelPc, produced,
                    built, satisfiedAt, client, created, handleVars, otherVars >>

\* execute, lines 117-119: the final result as a Text event.
EmitResult ==
    /\ pc = "emit_result"
    /\ Enqueue(TextEvent(result.text, result.names, result.n, "execute"))
    /\ pc' = "emit_completed"
    /\ UNCHANGED << sub_agents, mode, idx, results, selected, wstate, event,
                    gathered, err, result, cancels, invoked, cancelInvoked, cancelPc,
                    produced,
                    built, satisfiedAt, client, created, handleVars, otherVars >>

\* execute, lines 121-126.
EmitCompleted ==
    /\ pc = "emit_completed"
    /\ Enqueue(StateEvent("COMPLETED", "All sub-agents completed successfully!",
                          NoError, "execute"))
    /\ pc' = "done"
    /\ UNCHANGED << sub_agents, mode, idx, results, selected, wstate, event,
                    gathered, err, result, cancels, invoked, cancelInvoked, cancelPc,
                    produced,
                    built, satisfiedAt, client, created, handleVars, otherVars >>

\* execute, lines 128-134: the handler's FAILED event; execute then returns.
EmitFailed ==
    /\ pc = "except"
    /\ Enqueue(StateEvent("FAILED", "Orchestration failed: ", err, "execute"))
    /\ pc' = "done"
    /\ UNCHANGED << sub_agents, mode, idx, results, selected, wstate, event,
                    gathered, err, result, cancels, invoked, cancelInvoked, cancelPc,
                    produced,
                    built, satisfiedAt, client, created, handleVars, otherVars >>

\* A variant of Cancel that also forgets the sub-agents, as a cancel that
\* tears the handles down would.
CancelDropsAgents ==
    /\ cancels < MaxCancels
    /\ Enqueue(StateEvent("CANCELLED", "Orchestration cancelled.", NoError,
                          "cancel"))
    /\ cancels' = cancels + 1
    /\ cancelInvoked' = IF cancelInvoked = -1 THEN Len(invoked) ELSE cancelInvoked
    /\ cancelPc' = IF cancelPc = "none" THEN pc ELSE cancelPc
    /\ sub_agents' = <<>>
    /\ UNCHANGED << mode, pc, idx, results, selected, wstate, event,
                    gathered, err, result, invoked, produced,
                    built, satisfiedAt, client, created, handleVars, otherVars >>

\* cancel, lines 391-406: one CANCELLED event; nothing else is touched.
Cancel ==
    /\ cancels < MaxCancels
    /\ Enqueue(StateEvent("CANCELLED", "Orchestration cancelled.", NoError,
                          "cancel"))
    /\ cancels' = cancels + 1
    /\ cancelInvoked' = IF cancelInvoked = -1 THEN Len(invoked) ELSE cancelInvoked
    /\ cancelPc' = IF cancelPc = "none" THEN pc ELSE cancelPc
    /\ UNCHANGED << sub_agents, mode, pc, idx, results, selected, wstate, event,
                    gathered, err, result, invoked, produced,
                    built, satisfiedAt, client, created, handleVars, otherVars >>

\* ------------------------------------------------------------ SubAgent.execute_task

\* The async for receives the next event of the remote agent's stream.
Receive(w) ==
    /\ wstate[w] = "streaming"
    /\ TotalProduced < MaxEvents
    /\ \E ev \in WorkerEvents(w, Len(produced[w]) + 1) :
          /\ event' = [event EXCEPT ![w] = ev]
          /\ produced' = [produced EXCEPT ![w] = Append(@, ev)]
    /\ wstate' = [wstate EXCEPT ![w] = "forwarding"]
    /\ UNCHANGED << sub_agents, mode, pc, sink, idx, results, selected,
                    gathered, err, result, cancels, invoked, cancelInvoked, cancelPc,
                    built, satisfiedAt, client, created, handleVars, otherVars >>

\* A variant of Forward that loses the received event.
ForwardDropped(w) ==
    /\ wstate[w] = "forwarding"
    /\ wstate' = [wstate EXCEPT ![w] = "streaming"]
    /\ UNCHANGED << sub_agents, mode, pc, sink, idx, results, selected, event,
                    gathered, err, result, cancels, invoked, cancelInvoked,
                    cancelPc, produced, built, satisfiedAt, client, created,
                    handleVars, otherVars >>

\* Line 59: the received event goes to the orchestrator's queue, as it is.
Forward(w) ==
    /\ wstate[w] = "forwarding"
    /\ Enqueue(event[w])
    /\ wstate' = [wstate EXCEPT ![w] = "streaming"]
    /\ UNCHANGED << sub_agents, mode, pc, idx, results, selected, event,
                    gathered, err, result, cancels, invoked, cancelInvoked, cancelPc,
                    produced,
                    built, satisfiedAt, client, created, handleVars, otherVars >>

\* ------------------------------------------------------------ pattern 1: sequential

\* Lines 172-177: the next agent of the dictionary and its banner.
SeqDelegate ==
    /\ mode = "SEQUENTIAL" /\ pc = "seq_loop"
    /\ idx <= Len(sub_agents)
    /\ Enqueue(TextEvent("--- Delegating to ---", <<sub_agents[idx]>>, 0, "execute"))
    /\ pc' = "seq_invoke"
    /\ UNCHANGED << sub_agents, mode, idx, results, selected, wstate, event,
                    gathered, err, result, cancels, invoked, cancelInvoked, cancelPc,
                    produced,
                    built, satisfiedAt, client, created, handleVars, otherVars >>

\* A variant of SeqInvoke that starts the agent's task without awaiting it
\* and moves on to the next agent.
SeqInvokeNoAwait ==
    /\ mode = "SEQUENTIAL" /\ pc = "seq_invoke"
    /\ StartTask(sub_agents[idx])
    /\ built' = Append(built,
                       [agent |-> sub_agents[idx],
                        instruction |-> Instruction(UserMessage, <<>>),
                        previous |-> results])
    /\ idx' = idx + 1
    /\ pc' = "seq_loop"
    /\ UNCHANGED << sub_agents, mode, sink, results, selected, event, gathered,
                    err, result, cancels, cancelInvoked, cancelPc, produced,
                    satisfiedAt, handleVars, otherVars >>

\* A variant of SeqInvoke that records the agent in results before its
\* instruction is built.
SeqInvokeRecordsFirst ==
    /\ mode = "SEQUENTIAL" /\ pc = "seq_invoke"
    /\ StartTask(sub_agents[idx])
    /\ results' = DictSet(results, sub_agents[idx])
    /\ built' = Append(built,
                       [agent |-> sub_agents[idx],
                        instruction |-> Instruction(UserMessage, <<>>),
                        previous |-> results'])
    /\ pc' = "seq_wait"
    /\ UNCHANGED << sub_agents, mode, sink, idx, selected, event, gathered,
                    err, result, cancels, cancelInvoked, cancelPc, produced,
                    satisfiedAt, handleVars, otherVars >>

\* Lines 180-185: the instruction is built and the agent is invoked.
SeqInvoke ==
    /\ mode = "SEQUENTIAL" /\ pc = "seq_invoke"
    /\ StartTask(sub_agents[idx])
    /\ built' = Append(built,
                       [agent |-> sub_agents[idx],
                        instruction |->
                            Instruction(BuildInstructionForAgent(
                                            sub_agents[idx], UserMessage, results),
                                        <<>>),
                        previous |-> results])
    /\ pc' = "seq_wait"
    /\ UNCHANGED << sub_agents, mode, sink, idx, results, selected, event,
                    gathered, err, result, cancels, cancelInvoked, cancelPc, produced,
                    satisfiedAt, handleVars, otherVars >>

\* A variant of SeqTaskReturn whose loop steps over the agent that follows.
SeqTaskReturnSkipsNext(w) ==
    /\ mode = "SEQUENTIAL" /\ pc = "seq_wait"
    /\ wstate[w] = "streaming"
    /\ wstate' = [wstate EXCEPT ![w] = "returned"]
    /\ results' = DictSet(results, w)
    /\ idx' = idx + 2
    /\ pc' = "seq_loop"
    /\ UNCHANGED << sub_agents, mode, sink, selected, event, gathered, err,
                    result, cancels, invoked, cancelInvoked, cancelPc, produced,
                    built, satisfiedAt, client, created, handleVars, otherVars >>

\* Lines 61 and 188: the stream ended, execute_task returns True, and the
\* agent is recorded (whatever its events were); on to the next agent.
SeqTaskReturn(w) ==
    /\ mode = "SEQUENTIAL" /\ pc = "seq_wait"
    /\ wstate[w] = "streaming"
    /\ wstate' = [wstate EXCEPT ![w] = "returned"]
    /\ results' = DictSet(results, w)
    /\ idx' = idx + 1
    /\ pc' = "seq_loop"
    /\ UNCHANGED << sub_agents, mode, sink, selected, event, gathered, err,
                    result, cancels, invoked, cancelInvoked, cancelPc, produced,
                    built, satisfiedAt, client, created, handleVars, otherVars >>

\* A variant of SeqTaskRaise that swallows the exception and goes on to the
\* next agent (continue-on-error).
SeqTaskRaiseContinue(w) ==
    /\ mode = "SEQUENTIAL" /\ pc = "seq_wait"
    /\ wstate[w] = "streaming"
    /\ wstate' = [wstate EXCEPT ![w] = "raised"]
    /\ idx' = idx + 1
    /\ pc' = "seq_loop"
    /\ UNCHANGED << sub_agents, mode, sink, results, selected, event, gathered,
                    err, result, cancels, invoked, cancelInvoked, cancelPc,
                    produced,
                    built, satisfiedAt, client, created, handleVars, otherVars >>

\* The invocation raises: the exception leaves the loop and _orchestrate_task.
SeqTaskRaise(w) ==
    /\ mode = "SEQUENTIAL" /\ pc = "seq_wait"
    /\ wstate[w] = "streaming"
    /\ wstate' = [wstate EXCEPT ![w] = "raised"]
    /\ Catch(WorkerError(w))
    /\ UNCHANGED << sub_agents, mode, sink, idx, results, selected, event,
                    gathered, result, cancels, invoked, cancelInvoked, cancelPc,
                    produced,
                    built, satisfiedAt, client, created, handleVars, otherVars >>

\* Lines 190-192: the loop is over; the results are synthesized and returned.
SeqSynthesize ==
    /\ mode = "SEQUENTIAL" /\ pc = "seq_loop"
    /\ idx > Len(sub_agents)
    /\ result' = SynthesizeResults(results)
    /\ pc' = "emit_result"
    /\ UNCHANGED << sub_agents, mode, sink, idx, results, selected, wstate,
                    event, gathered, err, cancels, invoked, cancelInvoked, cancelPc,
                    produced,
                    built, satisfiedAt, client, created, handleVars, otherVars >>

\* ------------------------------------------------------------ pattern 2: parallel

\* Lines 209-213.
ParAnnounce ==
    /\ mode = "PARALLEL" /\ pc = "par_announce"
    /\ Enqueue(TextEvent("Executing multiple agents in parallel...", <<>>, 0,
                         "execute"))
    /\ pc' = "par_gather"
    /\ UNCHANGED << sub_agents, mode, idx, results, selected, wstate, event,
                    gathered, err, result, cancels, invoked, cancelInvoked, cancelPc,
                    produced,
                    built, satisfiedAt, client, created, handleVars, otherVars >>

\* A variant of ParGather whose instruction string accumulates over the loop:
\* each agent's instruction also names the agents before it.
ParGatherChained ==
    /\ mode = "PARALLEL" /\ pc = "par_gather"
    /\ wstate' = [w \in AgentNames |->
                    IF w \in Range(sub_agents) THEN "streaming" ELSE wstate[w]]
    /\ invoked' = invoked \o sub_agents
    /\ client' = [w \in AgentNames |->
                    IF w \in Range(sub_agents) THEN ClientAfter(w) ELSE client[w]]
    /\ created' = [w \in AgentNames |->
                     IF w \in Range(sub_agents) /\ ClientAfter(w) > created[w]
                     THEN ClientAfter(w) ELSE created[w]]
    /\ built' = built \o
                  [i \in 1..Len(sub_agents) |->
                      [agent |-> sub_agents[i],
                       instruction |-> Instruction(UserMessage,
                                                   SubSeq(sub_agents, 1, i)),
                       previous |-> <<>>]]
    /\ pc' = "par_wait"
    /\ UNCHANGED << sub_agents, mode, sink, idx, results, selected, event,
                    gathered, err, result, cancels, cancelInvoked, cancelPc, produced,
                    satisfiedAt, handleVars, otherVars >>

\* Lines 216-223: one coroutine per agent, all handed to asyncio.gather,
\* which starts them all.
ParGather ==
    /\ mode = "PARALLEL" /\ pc = "par_gather"
    /\ wstate' = [w \in AgentNames |->
                    IF w \in Range(sub_agents) THEN "streaming" ELSE wstate[w]]
    /\ invoked' = invoked \o sub_agents
    /\ client' = [w \in AgentNames |->
                    IF w \in Range(sub_agents) THEN ClientAfter(w) ELSE client[w]]
    /\ created' = [w \in AgentNames |->
                     IF w \in Range(sub_agents) /\ ClientAfter(w) > created[w]
                     THEN ClientAfter(w) ELSE created[w]]
    /\ built' = built \o
                  [i \in 1..Len(sub_agents) |->
                      [agent |-> sub_agents[i],
                       instruction |-> Instruction(UserMessage, <<sub_agents[i]>>),
                       previous |-> <<>>]]
    /\ pc' = "par_wait"
    /\ UNCHANGED << sub_agents, mode, sink, idx, results, selected, event,
                    gathered, err, result, cancels, cancelInvoked, cancelPc, produced,
                    satisfiedAt, handleVars, otherVars >>

\* A task's stream ended: gather holds True for it.
ParTaskReturn(w) ==
    /\ mode = "PARALLEL"
    /\ wstate[w] = "streaming"
    /\ wstate' = [wstate EXCEPT ![w] = "returned"]
    /\ gathered' = [gathered EXCEPT ![w] = "True"]
    /\ UNCHANGED << sub_agents, mode, pc, sink, idx, results, selected, event,
                    err, result, cancels, invoked, cancelInvoked, cancelPc, produced,
                    built, satisfiedAt, client, created, handleVars, otherVars >>

\* A task raised: gather holds the exception for it.
ParTaskRaise(w) ==
    /\ mode = "PARALLEL"
    /\ wstate[w] = "streaming"
    /\ wstate' = [wstate EXCEPT ![w] = "raised"]
    /\ gathered' = [gathered EXCEPT ![w] = "Exception"]
    /\ UNCHANGED << sub_agents, mode, pc, sink, idx, results, selected, event,
                    err, result, cancels, invoked, cancelInvoked, cancelPc, produced,
                    built, satisfiedAt, client, created, handleVars, otherVars >>

\* Lines 223-230: gather returns; any exception among the results fails the
\* run with the list of them all.
ParCollect ==
    /\ mode = "PARALLEL" /\ pc = "par_wait"
    /\ GatherDone
    /\ IF GatherErrors # <<>>
       THEN /\ Catch([kind |-> "Some agents failed: ", who |-> GatherErrors])
            /\ UNCHANGED result
       ELSE /\ result' = [text |-> "All agents completed successfully in parallel!",
                          names |-> <<>>, n |-> 0]
            /\ pc' = "emit_result"
            /\ UNCHANGED err
    /\ UNCHANGED << sub_agents, mode, sink, idx, results, selected, wstate,
                    event, gathered, cancels, invoked, cancelInvoked, cancelPc, produced,
                    built, satisfiedAt, client, created, handleVars, otherVars >>

\* ------------------------------------------------------------ pattern 3: conditional (routed)

\* Line 248.
RouteSelect ==
    /\ mode = "ROUTED" /\ pc = "route_select"
    /\ selected' \in Selections
    /\ pc' = "route_loop"
    /\ UNCHANGED << sub_agents, mode, sink, idx, results, wstate, event,
                    gathered, err, result, cancels, invoked, cancelInvoked, cancelPc,
                    produced,
                    built, satisfiedAt, client, created, handleVars, otherVars >>

\* A variant of RouteNext without the membership test of line 252.
RouteNextUnchecked ==
    /\ mode = "ROUTED" /\ pc = "route_loop"
    /\ idx <= Len(selected)
    /\ Enqueue(TextEvent("--- Selected for this task ---",
                         <<selected[idx]>>, 0, "execute"))
    /\ pc' = "route_invoke"
    /\ UNCHANGED << sub_agents, mode, idx, results, selected, wstate, event,
                    gathered, err, result, cancels, invoked, cancelInvoked,
                    cancelPc, produced, built, satisfiedAt, client, created,
                    handleVars, otherVars >>

\* Lines 251-261: the next selected name; an unknown one is skipped.
RouteNext ==
    /\ mode = "ROUTED" /\ pc = "route_loop"
    /\ idx <= Len(selected)
    /\ IF selected[idx] \notin Range(sub_agents)
       THEN /\ idx' = idx + 1
            /\ UNCHANGED << pc, sink >>
       ELSE /\ Enqueue(TextEvent("--- Selected for this task ---",
                                 <<selected[idx]>>, 0, "execute"))
            /\ pc' = "route_invoke"
            /\ UNCHANGED idx
    /\ UNCHANGED << sub_agents, mode, results, selected, wstate, event,
                    gathered, err, result, cancels, invoked, cancelInvoked, cancelPc,
                    produced,
                    built, satisfiedAt, client, created, handleVars, otherVars >>

\* Line 263.
RouteInvoke ==
    /\ mode = "ROUTED" /\ pc = "route_invoke"
    /\ StartTask(selected[idx])
    /\ built' = Append(built,
                       [agent |-> selected[idx],
                        instruction |-> Instruction(UserMessage, <<>>),
                        previous |-> <<>>])
    /\ pc' = "route_wait"
    /\ UNCHANGED << sub_agents, mode, sink, idx, results, selected, event,
                    gathered, err, result, cancels, cancelInvoked, cancelPc, produced,
                    satisfiedAt, handleVars, otherVars >>

\* Lines 264-268: the agent is appended to results; the stopping predicate
\* decides between break and the next selected name.
RouteTaskReturn(w) ==
    /\ mode = "ROUTED" /\ pc = "route_wait"
    /\ wstate[w] = "streaming"
    /\ wstate' = [wstate EXCEPT ![w] = "returned"]
    /\ results' = Append(results, w)
    /\ idx' = idx + 1
    /\ pc' = IF ShouldStopExecution(results') THEN "route_done" ELSE "route_loop"
    /\ UNCHANGED << sub_agents, mode, sink, selected, event, gathered, err,
                    result, cancels, invoked, cancelInvoked, cancelPc, produced,
                    built, satisfiedAt, client, created, handleVars, otherVars >>

RouteTaskRaise(w) ==
    /\ mode = "ROUTED" /\ pc = "route_wait"
    /\ wstate[w] = "streaming"
    /\ wstate' = [wstate EXCEPT ![w] = "raised"]
    /\ Catch(WorkerError(w))
    /\ UNCHANGED << sub_agents, mode, sink, idx, results, selected, event,
                    gathered, result, cancels, invoked, cancelInvoked, cancelPc,
                    produced,
                    built, satisfiedAt, client, created, handleVars, otherVars >>

\* A variant of RouteReturn that treats an empty results list as an error.
RouteReturnRejectsEmpty ==
    /\ mode = "ROUTED"
    /\ pc = "route_done" \/ (pc = "route_loop" /\ idx > Len(selected))
    /\ IF results = <<>>
       THEN /\ Catch([kind |-> "No agent executed", who |-> <<>>])
            /\ UNCHANGED result
       ELSE /\ result' = [text |-> "Executed agents: ", names |-> results, n |-> 0]
            /\ pc' = "emit_result"
            /\ UNCHANGED err
    /\ UNCHANGED << sub_agents, mode, sink, idx, results, selected, wstate,
                    event, gathered, cancels, invoked, cancelInvoked, cancelPc,
                    produced, built, satisfiedAt, client, created, handleVars, otherVars >>

\* Line 270.
RouteReturn ==
    /\ mode = "ROUTED"
    /\ pc = "route_done" \/ (pc = "route_loop" /\ idx > Len(selected))
    /\ result' = [text |-> "Executed agents: ", names |-> results, n |-> 0]
    /\ pc' = "emit_result"
    /\ UNCHANGED << sub_agents, mode, sink, idx, results, selected, wstate,
                    event, gathered, err, cancels, invoked, cancelInvoked, cancelPc,
                    produced,
                    built, satisfiedAt, client, created, handleVars, otherVars >>

\* ------------------------------------------------------------ pattern 4: iterative

\* Lines 290-295: round idx (the code's iteration + 1) opens.
IterBanner ==
    /\ mode = "ITERATIVE" /\ pc = "iter_loop"
    /\ Enqueue(TextEvent("--- Iteration ---", <<>>, idx, "execute"))
    /\ pc' = "iter_generate"
    /\ UNCHANGED << sub_agents, mode, idx, results, selected, wstate, event,
                    gathered, err, result, cancels, invoked, cancelInvoked, cancelPc,
                    produced,
                    built, satisfiedAt, client, created, handleVars, otherVars >>

\* Lines 297-301: the generator step.
IterGenerate ==
    /\ mode = "ITERATIVE" /\ pc = "iter_generate"
    /\ Enqueue(TextEvent("Generating...", <<>>, 0, "execute"))
    /\ pc' = "iter_review"
    /\ UNCHANGED << sub_agents, mode, idx, results, selected, wstate, event,
                    gathered, err, result, cancels, invoked, cancelInvoked, cancelPc,
                    produced,
                    built, satisfiedAt, client, created, handleVars, otherVars >>

\* A variant of IterReview whose loop runs one round too many.
IterReviewOffByOne ==
    /\ mode = "ITERATIVE" /\ pc = "iter_review"
    /\ Enqueue(TextEvent("Reviewing...", <<>>, 0, "execute"))
    /\ IF IsResultSatisfactory(UserMessage) \/ idx > max_iterations
       THEN /\ result' = [text |-> "Completed after iterations", names |-> <<>>,
                          n |-> idx]
            /\ pc' = "emit_result"
            /\ UNCHANGED idx
       ELSE /\ idx' = idx + 1
            /\ pc' = "iter_loop"
            /\ UNCHANGED result
    /\ UNCHANGED << sub_agents, mode, results, selected, wstate, event,
                    gathered, err, cancels, invoked, cancelInvoked, cancelPc,
                    produced, built, satisfiedAt, client, created, handleVars, otherVars >>

\* A variant of IterReview that never asks whether the result is satisfactory.
IterReviewNoBreak ==
    /\ mode = "ITERATIVE" /\ pc = "iter_review"
    /\ Enqueue(TextEvent("Reviewing...", <<>>, 0, "execute"))
    /\ IF idx >= max_iterations
       THEN /\ result' = [text |-> "Completed after iterations", names |-> <<>>,
                          n |-> idx]
            /\ pc' = "emit_result"
            /\ UNCHANGED idx
       ELSE /\ idx' = idx + 1
            /\ pc' = "iter_loop"
            /\ UNCHANGED result
    /\ UNCHANGED << sub_agents, mode, results, selected, wstate, event,
                    gathered, err, cancels, invoked, cancelInvoked, cancelPc,
                    produced, built, satisfiedAt, client, created, handleVars, otherVars >>

\* Lines 303-313: the critic step, then the check that ends the loop early,
\* then the next round or the return.
IterReview ==
    /\ mode = "ITERATIVE" /\ pc = "iter_review"
    /\ Enqueue(TextEvent("Reviewing...", <<>>, 0, "execute"))
    /\ IF IsResultSatisfactory(UserMessage) \/ idx >= max_iterations
       THEN /\ result' = [text |-> "Completed after iterations", names |-> <<>>,
                          n |-> idx]
            /\ pc' = "emit_result"
            /\ UNCHANGED idx
       ELSE /\ idx' = idx + 1
            /\ pc' = "iter_loop"
            /\ UNCHANGED result
    /\ UNCHANGED << sub_agents, mode, results, selected, wstate, event,
                    gathered, err, cancels, invoked, cancelInvoked, cancelPc, produced,
                    built, satisfiedAt, client, created, handleVars, otherVars >>

\* ------------------------------------------------------------ specification

Next ==
    \/ ExecuteStart
    \/ EmitResult
    \/ EmitCompleted
    \/ EmitFailed
    \/ Cancel
    \/ \E w \in AgentNames : Receive(w)
    \/ \E w \in AgentNames : Forward(w)
    \/ SeqDelegate
    \/ SeqInvoke
    \/ \E w \in AgentNames : SeqTaskReturn(w)
    \/ \E w \in AgentNames : SeqTaskRaise(w)
    \/ SeqSynthesize
    \/ ParAnnounce
    \/ ParGather
    \/ \E w \in AgentNames : ParTaskReturn(w)
    \/ \E w \in AgentNames : ParTaskRaise(w)
    \/ ParCollect
    \/ RouteSelect
    \/ RouteNext
    \/ RouteInvoke
    \/ \E w \in AgentNames : RouteTaskReturn(w)
    \/ \E w \in AgentNames : RouteTaskRaise(w)
    \/ RouteReturn
    \/ IterBanner
    \/ IterGenerate
    \/ IterReview

Spec == Init /\ [][Next]_vars

\* ------------------------------------------------------------ SubAgent handles used directly

\* The orchestrator's run leaves the direct callers of the handles alone,
\* and they leave the run alone.
runVars == << sub_agents, mode, pc, sink, idx, results, selected, wstate,
              event, gathered, err, result, cancels, invoked, cancelInvoked,
              cancelPc, produced, built, satisfiedAt >>

Idle == [at |-> "idle", w |-> "", n |-> 0]

\* Calls begun so far: those that returned and those waiting for an answer.
CallsMade ==
    SumLen(hgot, Callers) + Cardinality({ c \in Callers : hpc[c] # Idle })

\* What a call returned to its caller (val = -1: it raised).
Returned(op, w, val) == [op |-> op, w |-> w, val |-> val]

\* A caller awaits agent.get_client(): lines 33-37, one step.
HGetClient(c, w) ==
    /\ hpc[c] = Idle
    /\ CallsMade < MaxCalls
    /\ GetClient(w)
    /\ hgot' = [hgot EXCEPT ![c] = Append(@, Returned("client", w, ClientAfter(w)))]
    /\ UNCHANGED << runVars, otherVars, card, fetches, hpc, storedAt >>

\* A variant of HGetCard without the test of line 41: every call fetches.
HGetCardAlwaysFetches(c, w) ==
    /\ hpc[c] = Idle
    /\ CallsMade < MaxCalls
    /\ GetClient(w)
    /\ fetches' = [fetches EXCEPT ![w] = @ + 1]
    /\ hpc' = [hpc EXCEPT ![c] = [at |-> "fetching", w |-> w,
                                  n |-> fetches[w] + 1]]
    /\ UNCHANGED << runVars, otherVars, card, storedAt, hgot >>

\* A caller awaits agent.get_card(): lines 41-43.  A stored card is returned
\* at once; otherwise the client is obtained and the request for the card is
\* sent, and the caller is suspended until the answer.
HGetCard(c, w) ==
    /\ hpc[c] = Idle
    /\ CallsMade < MaxCalls
    /\ IF card[w] # 0
       THEN /\ hgot' = [hgot EXCEPT ![c] = Append(@, Returned("card", w, card[w]))]
            /\ UNCHANGED << client, created, fetches, hpc >>
       ELSE /\ GetClient(w)
            /\ fetches' = [fetches EXCEPT ![w] = @ + 1]
            /\ hpc' = [hpc EXCEPT ![c] = [at |-> "fetching", w |-> w,
                                          n |-> fetches[w] + 1]]
            /\ UNCHANGED hgot
    /\ UNCHANGED << runVars, otherVars, card, storedAt >>

\* Lines 43-44: the answer arrives, is stored and returned.
HCardFetched(c) ==
    /\ hpc[c].at = "fetching"
    /\ card' = [card EXCEPT ![hpc[c].w] = hpc[c].n]
    /\ storedAt' = [storedAt EXCEPT ![hpc[c].w] = fetches[hpc[c].w]]
    /\ hgot' = [hgot EXCEPT ![c] = Append(@, Returned("card", hpc[c].w, hpc[c].n))]
    /\ hpc' = [hpc EXCEPT ![c] = Idle]
    /\ UNCHANGED << runVars, otherVars, client, created, fetches >>

\* Line 43 raises: nothing is stored and the exception goes to the caller.
HCardFailed(c) ==
    /\ hpc[c].at = "fetching"
    /\ hgot' = [hgot EXCEPT ![c] = Append(@, Returned("card", hpc[c].w, -1))]
    /\ hpc' = [hpc EXCEPT ![c] = Idle]
    /\ UNCHANGED << runVars, otherVars, client, created, card, fetches, storedAt >>

InitHandle ==
    /\ Init
    /\ sub_agents = <<"a", "b">>
    /\ mode = "SEQUENTIAL"

NextHandle ==
    \/ \E c \in Callers, w \in AgentNames : HGetClient(c, w)
    \/ \E c \in Callers, w \in AgentNames : HGetCard(c, w)
    \/ \E c \in Callers : HCardFetched(c)
    \/ \E c \in Callers : HCardFailed(c)

HandleSpec == InitHandle /\ [][NextHandle]_vars

\* ------------------------------------------------------------ two runs on one executor

\* What the orchestrator's single run and the handles' direct callers hold.
soloVars == << pc, sink, idx, results, selected, wstate, event, gathered, err,
              result, cancels, invoked, cancelInvoked, cancelPc, produced,
              built, satisfiedAt, handleVars, configVars, lrun, toolVars,
              simpleVars, registryVars, functionVars >>

\* The agent the loop of call r is at.
AgentOf(r) == sub_agents[runs[r].idx]

\* Events the remote agents have produced for the two calls together.
PairProduced == runs[1].nprod + runs[2].nprod

\* await event_queue.enqueue_event(ev) in call r, on the queue that call was
\* given; `by` is the call whose code enqueues.
PEnqueue(rec, ev, by) ==
    [rec EXCEPT !.sink = Append(@, ev), !.from = Append(@, by)]

\* execute, lines 102-109, wired to the sequential pattern (line 147).
PExecuteStart(r) ==
    /\ runs[r].pc = "start"
    /\ runs' = [runs EXCEPT ![r] =
                   [PEnqueue(@, StateEvent("THINKING",
                                           "Analyzing task and planning agent coordination...",
                                           NoError, "execute"), r)
                       EXCEPT !.pc = "seq_loop"]]
    /\ UNCHANGED << sub_agents, mode, client, created, soloVars >>

\* Lines 172-177.
PSeqDelegate(r) ==
    /\ runs[r].pc = "seq_loop"
    /\ runs[r].idx <= Len(sub_agents)
    /\ runs' = [runs EXCEPT ![r] =
                   [PEnqueue(@, TextEvent("--- Delegating to ---",
                                          <<AgentOf(r)>>, 0, "execute"), r)
                       EXCEPT !.pc = "seq_invoke"]]
    /\ UNCHANGED << sub_agents, mode, client, created, soloVars >>

\* Lines 180-185 and 54: the instruction from this call's message and
\* results; the shared handle's client; the request to the remote agent.
PSeqInvoke(r) ==
    /\ runs[r].pc = "seq_invoke"
    /\ GetClient(AgentOf(r))
    /\ runs' = [runs EXCEPT ![r] =
                   [@ EXCEPT !.pc = "seq_wait",
                             !.wst = "streaming",
                             !.built = Append(@,
                                [agent |-> AgentOf(r),
                                 instruction |->
                                     Instruction(BuildInstructionForAgent(
                                                     AgentOf(r), TaskOf(r),
                                                     runs[r].results), <<>>),
                                 previous |-> runs[r].results])]]
    /\ UNCHANGED << sub_agents, mode, soloVars >>

\* Line 57: the next event of the stream this call opened.
PReceive(r) ==
    /\ runs[r].wst = "streaming"
    /\ PairProduced < MaxEvents
    /\ \E ev \in WorkerEvents(AgentOf(r), runs[r].nprod + 1) :
          runs' = [runs EXCEPT ![r] =
                      [@ EXCEPT !.event = ev, !.nprod = @ + 1,
                                !.wst = "forwarding"]]
    /\ UNCHANGED << sub_agents, mode, client, created, soloVars >>

\* Line 59.
PForward(r) ==
    /\ runs[r].wst = "forwarding"
    /\ runs' = [runs EXCEPT ![r] =
                   [PEnqueue(@, runs[r].event, r) EXCEPT !.wst = "streaming"]]
    /\ UNCHANGED << sub_agents, mode, client, created, soloVars >>

\* A variant of PSeqTaskReturn that keeps the results on the executor: the
\* agent is recorded for every call in progress.
PSeqTaskReturnShared(r) ==
    /\ runs[r].pc = "seq_wait"
    /\ runs[r].wst = "streaming"
    /\ runs' = [q \in RunIds |->
                   IF q = r
                   THEN [runs[q] EXCEPT !.wst = "idle",
                                        !.results = DictSet(@, AgentOf(r)),
                                        !.idx = @ + 1,
                                        !.pc = "seq_loop"]
                   ELSE [runs[q] EXCEPT !.results = DictSet(@, AgentOf(r))]]
    /\ UNCHANGED << sub_agents, mode, client, created, soloVars >>

\* Lines 61 and 188: recorded in this call's own results.
PSeqTaskReturn(r) ==
    /\ runs[r].pc = "seq_wait"
    /\ runs[r].wst = "streaming"
    /\ runs' = [runs EXCEPT ![r] =
                   [@ EXCEPT !.wst = "idle",
                             !.results = DictSet(@, AgentOf(r)),
                             !.idx = @ + 1,
                             !.pc = "seq_loop"]]
    /\ UNCHANGED << sub_agents, mode, client, created, soloVars >>

\* The invocation raises into this call's handler (line 128).
PSeqTaskRaise(r) ==
    /\ runs[r].pc = "seq_wait"
    /\ runs[r].wst = "streaming"
    /\ runs' = [runs EXCEPT ![r] =
                   [@ EXCEPT !.wst = "idle",
                             !.err = WorkerError(AgentOf(r)),
                             !.pc = "except"]]
    /\ UNCHANGED << sub_agents, mode, client, created, soloVars >>

\* Lines 190-192.
PSeqSynthesize(r) ==
    /\ runs[r].pc = "seq_loop"
    /\ runs[r].idx > Len(sub_agents)
    /\ runs' = [runs EXCEPT ![r] =
                   [@ EXCEPT !.result = SynthesizeResults(runs[r].results),
                             !.pc = "emit_result"]]
    /\ UNCHANGED << sub_agents, mode, client, created, soloVars >>

\* Lines 117-119.
PEmitResult(r) ==
    /\ runs[r].pc = "emit_result"
    /\ runs' = [runs EXCEPT ![r] =
                   [PEnqueue(@, TextEvent(runs[r].result.text,
                                          runs[r].result.names,
                                          runs[r].result.n, "execute"), r)
                       EXCEPT !.pc = "emit_completed"]]
    /\ UNCHANGED << sub_agents, mode, client, created, soloVars >>

\* Lines 121-126.
PEmitCompleted(r) ==
    /\ runs[r].pc = "emit_completed"
    /\ runs' = [runs EXCEPT ![r] =
                   [PEnqueue(@, StateEvent("COMPLETED",
                                           "All sub-agents completed successfully!",
                                           NoError, "execute"), r)
                       EXCEPT !.pc = "done"]]
    /\ UNCHANGED << sub_agents, mode, client, created, soloVars >>

\* Lines 128-134.
PEmitFailed(r) ==
    /\ runs[r].pc = "except"
    /\ runs' = [runs EXCEPT ![r] =
                   [PEnqueue(@, StateEvent("FAILED", "Orchestration failed: ",
                                           runs[r].err, "execute"), r)
                       EXCEPT !.pc = "done"]]
    /\ UNCHANGED << sub_agents, mode, client, created, soloVars >>

InitPair ==
    /\ Init
    /\ mode = "SEQUENTIAL"

NextPair ==
    \/ \E r \in RunIds : PExecuteStart(r)
    \/ \E r \in RunIds : PSeqDelegate(r)
    \/ \E r \in RunIds : PSeqInvoke(r)
    \/ \E r \in RunIds : PReceive(r)
    \/ \E r \in RunIds : PForward(r)
    \/ \E r \in RunIds : PSeqTaskReturn(r)
    \/ \E r \in RunIds : PSeqTaskRaise(r)
    \/ \E r \in RunIds : PSeqSynthesize(r)
    \/ \E r \in RunIds : PEmitResult(r)
    \/ \E r \in RunIds : PEmitCompleted(r)
    \/ \E r \in RunIds : PEmitFailed(r)

PairSpec == InitPair /\ [][NextPair]_vars

\* ------------------------------------------------------------ LLMOrchestratorExecutor

\* What a call of LLMOrchestratorExecutor.execute leaves alone; sub_agents
\* stands for that executor's own dictionary of handles (lines 420-423).
llmFrame == << runVars, configVars, runs, hpc, hgot, toolVars, simpleVars,
              registryVars, functionVars >>

\* The exception a failing client.get_agent_card() raises for agent w.
CardError(w) == [kind |-> "CardError", who |-> <<w>>]

\* _get_agent_descriptions from loop position `from` on, with the cards c:
\* agents whose card is stored take no suspension (lines 41 and 44); the
\* result is the position of the first agent whose card must be fetched,
\* or one past the end.
NextUnfetched(from, c) ==
    IF \E i \in from..Len(sub_agents) : c[sub_agents[i]] = 0
    THEN CHOOSE i \in from..Len(sub_agents) :
             /\ c[sub_agents[i]] = 0
             /\ \A j \in from..(i - 1) : c[sub_agents[j]] # 0
    ELSE Len(sub_agents) + 1

\* The call r runs on from loop position `from` to its next suspension:
\* either the request for a card (lines 42-43), or, the loop being over,
\* the Text event of lines 456-460.
LResume(r, from, c) ==
    LET j == NextUnfetched(from, c)
    IN  IF j <= Len(sub_agents)
        THEN /\ GetClient(sub_agents[j])
             /\ fetches' = [fetches EXCEPT ![sub_agents[j]] = @ + 1]
             /\ lrun' = [lrun EXCEPT ![r] =
                            [@ EXCEPT !.pc = "fetching", !.idx = j,
                                      !.n = fetches[sub_agents[j]] + 1]]
        ELSE /\ lrun' = [lrun EXCEPT ![r] =
                            [@ EXCEPT !.pc = "emit_completed", !.idx = j,
                                      !.sink = Append(@,
                                          TextEvent("LLM-based orchestration not yet implemented. See code for examples.",
                                                    <<>>, 0, "execute"))]]
             /\ UNCHANGED << client, created, fetches >>

\* execute, lines 441-445: no event, no try; straight into the loop.
LExecute(r) ==
    /\ lrun[r].pc = "start"
    /\ LResume(r, 1, card)
    /\ UNCHANGED << card, storedAt, llmFrame >>

\* Lines 43-44 and 473-474: the card arrives, is stored, and the loop goes on.
LCardFetched(r) ==
    /\ lrun[r].pc = "fetching"
    /\ card' = [card EXCEPT ![sub_agents[lrun[r].idx]] = lrun[r].n]
    /\ storedAt' = [storedAt EXCEPT ![sub_agents[lrun[r].idx]] =
                        fetches[sub_agents[lrun[r].idx]]]
    /\ LResume(r, lrun[r].idx + 1, card')
    /\ UNCHANGED llmFrame

\* Line 43 raises: get_card, _get_agent_descriptions and execute have no
\* handler, so the exception leaves execute.
LCardFailed(r) ==
    /\ lrun[r].pc = "fetching"
    /\ lrun' = [lrun EXCEPT ![r] =
                   [@ EXCEPT !.pc = "propagated",
                             !.err = CardError(sub_agents[lrun[r].idx])]]
    /\ UNCHANGED << client, created, card, fetches, storedAt, llmFrame >>

\* Lines 462-467.
LEmitCompleted(r) ==
    /\ lrun[r].pc = "emit_completed"
    /\ lrun' = [lrun EXCEPT ![r] =
                   [@ EXCEPT !.pc = "done",
                             !.sink = Append(@, StateEvent("COMPLETED", "Done!",
                                                           NoError, "execute"))]]
    /\ UNCHANGED << client, created, card, fetches, storedAt, llmFrame >>

\* cancel, lines 477-487.
LCancel(r) ==
    /\ lrun[r].cancels < MaxCancels
    /\ lrun' = [lrun EXCEPT ![r] =
                   [@ EXCEPT !.cancels = @ + 1,
                             !.sink = Append(@, StateEvent("CANCELLED",
                                                           "Orchestration cancelled.",
                                                           NoError, "cancel"))]]
    /\ UNCHANGED << client, created, card, fetches, storedAt, llmFrame >>

InitLLM ==
    /\ Init
    /\ mode = "SEQUENTIAL"

NextLLM ==
    \/ \E r \in RunIds : LExecute(r)
    \/ \E r \in RunIds : LCardFetched(r)
    \/ \E r \in RunIds : LCardFailed(r)
    \/ \E r \in RunIds : LEmitCompleted(r)
    \/ \E r \in RunIds : LCancel(r)

LLMSpec == InitLLM /\ [][NextLLM]_vars

\* ------------------------------------------------------------ ToolUsingAgentExecutor

\* What a call of ToolUsingAgentExecutor.execute or cancel leaves alone.
toolFrame == << runVars, client, created, handleVars, configVars, runs, lrun,
               simpleVars, registryVars, functionVars >>

\* str.lower(), character by character.
LowerChar(c) ==
    CASE c = "A" -> "a" []
         c = "B" -> "b" []
         c = "C" -> "c" []
         c = "D" -> "d" []
         c = "E" -> "e" []
         c = "F" -> "f" []
         c = "G" -> "g" []
         c = "H" -> "h" []
         c = "I" -> "i" []
         c = "J" -> "j" []
         c = "K" -> "k" []
         c = "L" -> "l" []
         c = "M" -> "m" []
         c = "N" -> "n" []
         c = "O" -> "o" []
         c = "P" -> "p" []
         c = "Q" -> "q" []
         c = "R" -> "r" []
         c = "S" -> "s" []
         c = "T" -> "t" []
         c = "U" -> "u" []
         c = "V" -> "v" []
         c = "W" -> "w" []
         c = "X" -> "x" []
         c = "Y" -> "y" []
         c = "Z" -> "z" []
         OTHER -> c

Lower(str) == [i \in 1..Len(str) |-> LowerChar(str[i])]

\* `sub in str` on strings.
Contains(str, sub) ==
    \E i \in 1..(Len(str) - Len(sub) + 1) : SubSeq(str, i, i + Len(sub) - 1) = sub

\* The task instructions of at most n words, single spaces between words.
RECURSIVE MessagesOf(_)
MessagesOf(n) ==
    IF n = 0 THEN { <<>> }
    ELSE LET shorter == MessagesOf(n - 1)
         IN  shorter \cup
             { IF m = <<>> THEN w ELSE m \o << " " >> \o w :
                   m \in shorter, w \in Vocabulary }

Messages == MessagesOf(MaxWords)

\* The keywords of lines 203-215.
KwTool1 == << "t", "o", "o", "l", " ", "1" >>
KwExample1 == << "e", "x", "a", "m", "p", "l", "e", " ", "1" >>
KwTool2 == << "t", "o", "o", "l", " ", "2" >>
KwExample2 == << "e", "x", "a", "m", "p", "l", "e", " ", "2" >>
KwApi == << "a", "p", "i" >>
KwCall == << "c", "a", "l", "l" >>
KwListTools == << "l", "i", "s", "t", " ", "t", "o", "o", "l", "s" >>
KwWhatCanYouDo == << "w", "h", "a", "t", " ", "c", "a", "n", " ", "y", "o", "u", " ", "d", "o" >>

\* A variant of SelectBranch that tests the api keywords before tool 2's.
SelectBranchApiFirst(user_message) ==
    LET message_lower == Lower(user_message)
    IN  IF Contains(message_lower, KwTool1) \/ Contains(message_lower, KwExample1)
        THEN "tool_example_1"
        ELSE IF Contains(message_lower, KwApi) \/ Contains(message_lower, KwCall)
        THEN "api_call"
        ELSE IF Contains(message_lower, KwTool2) \/ Contains(message_lower, KwExample2)
        THEN "tool_example_2"
        ELSE IF Contains(message_lower, KwListTools)
                \/ Contains(message_lower, KwWhatCanYouDo)
        THEN "list_tools"
        ELSE "fallback"

\* _process_with_tools, lines 200-223: the branch of the if/elif chain that
\* runs, named by the tool it calls.
SelectBranch(user_message) ==
    LET message_lower == Lower(user_message)
    IN  IF Contains(message_lower, KwTool1) \/ Contains(message_lower, KwExample1)
        THEN "tool_example_1"
        ELSE IF Contains(message_lower, KwTool2) \/ Contains(message_lower, KwExample2)
        THEN "tool_example_2"
        ELSE IF Contains(message_lower, KwApi) \/ Contains(message_lower, KwCall)
        THEN "api_call"
        ELSE IF Contains(message_lower, KwListTools)
                \/ Contains(message_lower, KwWhatCanYouDo)
        THEN "list_tools"
        ELSE "fallback"

\* The string each branch returns: its fixed text, and what is joined or
\* quoted into it (the tool names; the message as given, not lowered).
BranchResult(branch, user_message) ==
    CASE branch = "tool_example_1" ->
             [text |-> "Executed Tool 1: Tool 1 executed with param1='example input' and param2=5",
              names |-> <<>>, n |-> 0]
      [] branch = "tool_example_2" ->
             [text |-> "Executed Tool 2: {status: success, data: sample data, processed: true}",
              names |-> <<>>, n |-> 0]
      [] branch = "api_call" ->
             [text |-> "API Call Result: Would call GET https://api.example.com/data",
              names |-> <<>>, n |-> 0]
      [] branch = "list_tools" ->
             [text |-> "Available tools:", names |-> DefaultTools, n |-> 0]
      [] branch = "fallback" ->
             [text |-> "I didn't understand which tool to use for: ",
              names |-> user_message \o DefaultTools, n |-> 0]

\* The exception a raising tool implementation ends the branch with.
ToolError(tool) == [kind |-> "ToolError", who |-> << tool >>]

TEnqueue(ev) == tsink' = Append(tsink, ev)

\* execute, lines 152-160.
TExecuteStart ==
    /\ tpc = "start"
    /\ TEnqueue(StateEvent("THINKING",
                           "Analyzing your request and selecting appropriate tool...",
                           NoError, "execute"))
    /\ tpc' = "process"
    /\ UNCHANGED << task_instruction, faulty, tresult, terr, tcancels, toolFrame >>

\* A variant of TProcess outside any try block: a tool's exception leaves
\* execute.
TProcessUnguarded ==
    /\ tpc = "process"
    /\ IF SelectBranch(task_instruction) \in faulty
       THEN /\ terr' = ToolError(SelectBranch(task_instruction))
            /\ tpc' = "propagated"
            /\ UNCHANGED << tsink, tresult >>
       ELSE /\ tresult' = BranchResult(SelectBranch(task_instruction), task_instruction)
            /\ TEnqueue(TextEvent(tresult'.text, tresult'.names, tresult'.n,
                                  "execute"))
            /\ tpc' = "emit_completed"
            /\ UNCHANGED terr
    /\ UNCHANGED << task_instruction, faulty, tcancels, toolFrame >>

\* Lines 162-172 and 182: _process_with_tools runs to its return (it has
\* no suspension inside) and the result is enqueued; a tool that raises
\* takes control to the handler.
TProcess ==
    /\ tpc = "process"
    /\ IF SelectBranch(task_instruction) \in faulty
       THEN /\ terr' = ToolError(SelectBranch(task_instruction))
            /\ tpc' = "except"
            /\ UNCHANGED << tsink, tresult >>
       ELSE /\ tresult' = BranchResult(SelectBranch(task_instruction), task_instruction)
            /\ TEnqueue(TextEvent(tresult'.text, tresult'.names, tresult'.n,
                                  "execute"))
            /\ tpc' = "emit_completed"
            /\ UNCHANGED terr
    /\ UNCHANGED << task_instruction, faulty, tcancels, toolFrame >>

\* Lines 175-180.
TEmitCompleted ==
    /\ tpc = "emit_completed"
    /\ TEnqueue(StateEvent("COMPLETED", "Task completed!", NoError, "execute"))
    /\ tpc' = "done"
    /\ UNCHANGED << task_instruction, faulty, tresult, terr, tcancels, toolFrame >>

\* Lines 182-189.
TEmitFailed ==
    /\ tpc = "except"
    /\ TEnqueue(StateEvent("FAILED", "Error: ", terr, "execute"))
    /\ tpc' = "done"
    /\ UNCHANGED << task_instruction, faulty, tresult, terr, tcancels, toolFrame >>

\* cancel, lines 230-241.
TCancel ==
    /\ tcancels < MaxCancels
    /\ TEnqueue(StateEvent("CANCELLED", "Task cancelled.", NoError, "cancel"))
    /\ tcancels' = tcancels + 1
    /\ UNCHANGED << task_instruction, faulty, tpc, tresult, terr, toolFrame >>

\* The agent as constructed, the task it is given, and the tools as
\* shipped (none raises) or replaced by implementations that may raise.
InitTool ==
    /\ sub_agents = <<>>
    /\ mode = "SEQUENTIAL"
    /\ InitRun
    /\ task_instruction \in Messages
    /\ faulty \in SUBSET Range(DefaultTools)
    /\ ToolStart
    /\ agent_executor = "SimpleAgentExecutor"
    /\ DefaultArguments

NextTool ==
    \/ TExecuteStart
    \/ TProcess
    \/ TEmitCompleted
    \/ TEmitFailed
    \/ TCancel

ToolSpec == InitTool /\ [][NextTool]_vars

\* ------------------------------------------------------------ SimpleAgentExecutor, StreamingAgentExecutor

\* The simple agent's calls leave everything else alone.
simpleFrame == << runVars, client, created, handleVars, configVars, runs, lrun,
                 toolVars, registryVars, functionVars >>

\* The events of the simple agent's sinks: an AgentExecutionTextEvent
\* carries its append flag, a state event has none (FALSE).
AppendText(text, names, append) ==
    [type |-> "Text", state |-> "", text |-> text, names |-> names, n |-> 0,
     err |-> NoError, src |-> "execute", append |-> append]

AppendState(state, text, src) ==
    [type |-> "Status", state |-> state, text |-> text, names |-> <<>>, n |-> 0,
     err |-> NoError, src |-> src, append |-> FALSE]

\* The messages of at most n words of SimpleVocabulary.
RECURSIVE PhrasesOf(_)
PhrasesOf(n) ==
    IF n = 0 THEN { <<>> }
    ELSE LET shorter == PhrasesOf(n - 1)
         IN  shorter \cup
             { IF m = <<>> THEN w ELSE m \o << " " >> \o w :
                   m \in shorter, w \in SimpleVocabulary }

SimpleMessages == PhrasesOf(MaxPhrase)

KwHello == << "h", "e", "l", "l", "o" >>
KwHelp == << "h", "e", "l", "p" >>

\* _generate_response: the fixed text and, for the echo, the message.
GenerateResponse(user_message) ==
    IF Contains(Lower(user_message), KwHello)
    THEN [text |-> "Hello! I'm a simple A2A agent. How can I help you today?",
          names |-> <<>>]
    ELSE IF Contains(Lower(user_message), KwHelp)
    THEN [text |-> "I'm a simple agent that can respond to your messages. Ask me anything!",
          names |-> <<>>]
    ELSE [text |-> "You said: '' I'm a simple agent template - customize me to do more!",
          names |-> user_message]

\* SimpleAgentExecutor.execute, lines 42-50.
SExecuteStart ==
    /\ agent_executor = "SimpleAgentExecutor"
    /\ simple.pc = "start"
    /\ simple' = [simple EXCEPT
                     !.sink = Append(@, AppendState("THINKING",
                                                    "Processing your request...",
                                                    "execute")),
                     !.pc = "respond"]
    /\ UNCHANGED << agent_executor, streaming, simpleFrame >>

\* execute, lines 61-69: the response is generated and sent whole.
SRespond ==
    /\ simple.pc = "respond"
    /\ LET response == GenerateResponse(task_instruction)
       IN  simple' = [simple EXCEPT
                         !.sink = Append(@, AppendText(response.text,
                                                       response.names, FALSE)),
                         !.pc = "emit_completed"]
    /\ UNCHANGED << agent_executor, streaming, simpleFrame >>

\* execute, lines 72-77.
SEmitCompleted ==
    /\ simple.pc = "emit_completed"
    /\ simple' = [simple EXCEPT
                     !.sink = Append(@, AppendState("COMPLETED",
                                                    "Task completed successfully!",
                                                    "execute")),
                     !.pc = "done"]
    /\ UNCHANGED << agent_executor, streaming, simpleFrame >>

\* SimpleAgentExecutor.cancel: one event on the sink, nothing else.
SCancel ==
    /\ agent_executor = "SimpleAgentExecutor"
    /\ simple.cancels < MaxCancels
    /\ simple' = [simple EXCEPT
                     !.sink = Append(@, AppendState("CANCELLED",
                                                    "Task cancelled by user.",
                                                    "cancel")),
                     !.cancels = @ + 1]
    /\ UNCHANGED << agent_executor, streaming, simpleFrame >>

\* StreamingAgentExecutor.execute, line 145.
response_words == << "This", "is", "a", "streaming", "response", "example." >>

\* StreamingAgentExecutor.execute, lines 135-145.
StExecuteStart ==
    /\ agent_executor = "StreamingAgentExecutor"
    /\ streaming.pc = "start"
    /\ streaming' = [streaming EXCEPT
                        !.sink = Append(@, AppendState("THINKING",
                                                       "Starting to generate response...",
                                                       "execute")),
                        !.pc = IF Len(response_words) = 0 THEN "emit_completed"
                               ELSE "words",
                        !.i = 1]
    /\ UNCHANGED << agent_executor, simple, simpleFrame >>

\* A variant of StWord whose loop leaves after the word before the last.
StWordStopsEarly ==
    /\ streaming.pc = "words"
    /\ streaming' = [streaming EXCEPT
                        !.sink = Append(@, AppendText("", << response_words[streaming.i], " " >>,
                                                      TRUE)),
                        !.i = @ + 1,
                        !.pc = IF streaming.i + 1 >= Len(response_words)
                               THEN "emit_completed" ELSE "words"]
    /\ UNCHANGED << agent_executor, simple, simpleFrame >>

\* One round of the loop of lines 147-154: word + " ", appended.
StWord ==
    /\ streaming.pc = "words"
    /\ streaming' = [streaming EXCEPT
                        !.sink = Append(@, AppendText("", << response_words[streaming.i], " " >>,
                                                      TRUE)),
                        !.i = @ + 1,
                        !.pc = IF streaming.i = Len(response_words)
                               THEN "emit_completed" ELSE "words"]
    /\ UNCHANGED << agent_executor, simple, simpleFrame >>

\* execute, lines 157-162.
StEmitCompleted ==
    /\ streaming.pc = "emit_completed"
    /\ streaming' = [streaming EXCEPT
                        !.sink = Append(@, AppendState("COMPLETED",
                                                       "Streaming complete!",
                                                       "execute")),
                        !.pc = "done"]
    /\ UNCHANGED << agent_executor, simple, simpleFrame >>

\* StreamingAgentExecutor.cancel: one event on the sink, nothing else.
StCancel ==
    /\ agent_executor = "StreamingAgentExecutor"
    /\ streaming.cancels < MaxCancels
    /\ streaming' = [streaming EXCEPT
                        !.sink = Append(@, AppendState("CANCELLED",
                                                       "Streaming cancelled.",
                                                       "cancel")),
                        !.cancels = @ + 1]
    /\ UNCHANGED << agent_executor, simple, simpleFrame >>

\* The server built with one of the two executors, and the message of the
\* task it is given.
InitSimple ==
    /\ sub_agents = <<>>
    /\ mode = "SEQUENTIAL"
    /\ InitRun
    /\ task_instruction \in SimpleMessages
    /\ faulty = {}
    /\ ToolStart
    /\ agent_executor \in SimpleExecutors
    /\ DefaultArguments

NextSimple ==
    \/ SExecuteStart
    \/ SRespond
    \/ SEmitCompleted
    \/ SCancel
    \/ StExecuteStart
    \/ StWord
    \/ StEmitCompleted
    \/ StCancel

SimpleSpec == InitSimple /\ [][NextSimple]_vars

\* ------------------------------------------------------------ ToolRegistry

\* A lookup on the registry leaves everything else alone.
registryFrame == << runVars, client, created, handleVars, configVars, runs, lrun,
                   toolVars, simpleVars, functionVars >>

\* `tool_name in self.tools`.
Registered(tool_name) == \E i \in 1..Len(tools) : tools[i].name = tool_name

\* self.tools[tool_name], for a registered name.
EntryOf(tool_name) == tools[CHOOSE i \in 1..Len(tools) : tools[i].name = tool_name]

\* The outcome of a lookup: a returned value (a string, or for list_tools
\* a list of names) or the exception raised, with the name it carries.
ReturnValue(value, names) == [kind |-> "return", value |-> value, names |-> names]

RaiseError(kind, tool_name) == [kind |-> kind, value |-> tool_name, names |-> <<>>]

\* A variant of GetTool in the manner of dict.get: no exception for a name
\* that is not registered.
GetToolLenient(tool_name) ==
    IF Registered(tool_name)
    THEN ReturnValue(EntryOf(tool_name).function, <<>>)
    ELSE ReturnValue("None", <<>>)

\* get_tool, lines 110-114.
GetTool(tool_name) ==
    IF ~ Registered(tool_name)
    THEN RaiseError("ValueError", tool_name)
    ELSE ReturnValue(EntryOf(tool_name).function, <<>>)

\* list_tools, lines 116-118.
ListTools == ReturnValue("", [i \in 1..Len(tools) |-> tools[i].name])

\* get_tool_description, lines 120-122: the subscript raises KeyError for a
\* name that is not registered.
GetToolDescription(tool_name) ==
    IF Registered(tool_name)
    THEN ReturnValue(EntryOf(tool_name).description, <<>>)
    ELSE RaiseError("KeyError", tool_name)

\* One lookup, recorded with its outcome.
Record(op, tool_name, outcome) ==
    lookups' = Append(lookups, [op |-> op, tool_name |-> tool_name,
                                outcome |-> outcome])

RGetTool(tool_name) ==
    /\ Len(lookups) < MaxLookups
    /\ Record("get_tool", tool_name, GetTool(tool_name))
    /\ UNCHANGED << tools, registryFrame >>

RListTools ==
    /\ Len(lookups) < MaxLookups
    /\ Record("list_tools", "", ListTools)
    /\ UNCHANGED << tools, registryFrame >>

RGetToolDescription(tool_name) ==
    /\ Len(lookups) < MaxLookups
    /\ Record("get_tool_description", tool_name, GetToolDescription(tool_name))
    /\ UNCHANGED << tools, registryFrame >>

\* One registry as constructed.
InitRegistry ==
    /\ Init
    /\ sub_agents = <<>>
    /\ mode = "SEQUENTIAL"

NextRegistry ==
    \/ \E tool_name \in LookupNames : RGetTool(tool_name)
    \/ RListTools
    \/ \E tool_name \in LookupNames : RGetToolDescription(tool_name)

RegistrySpec == InitRegistry /\ [][NextRegistry]_vars

\* ------------------------------------------------------------ tools.py: roll_dice

\* A call of a tool function leaves everything else alone.
functionFrame == << runVars, client, created, handleVars, configVars, runs, lrun,
                   toolVars, simpleVars, registryVars >>

\* The arguments roll_dice is called with: around the lower limits, and for
\* count around the upper limit as well.
SidesArguments == (-1)..MaxSides

CountArguments == ((-1)..MaxCount) \cup { DiceLimit, DiceLimit + 1 }

\* A variant of RandInt in the manner of random.randrange(b): from 0, and b
\* left out.
RandRange(a, b) == 0..(b - 1)

\* random.randint(a, b): any integer from a to b, both included.
RandInt(a, b) == a..b

\* The lists line 34 can build.  Up to MaxCount dice every list is taken;
\* for more dice only the lists whose rolls are all equal.
RollLists(s, c) ==
    IF c <= MaxCount
    THEN [1..c -> RandInt(1, s)]
    ELSE { [i \in 1..c |-> v] : v \in RandInt(1, s) }

\* sum(rolls).
RECURSIVE SumOf(_)
SumOf(rolls) ==
    IF rolls = <<>> THEN 0 ELSE rolls[1] + SumOf(Tail(rolls))

\* raise ValueError(error).
DiceError(error) == [NoOutcome EXCEPT !.kind = "ValueError", !.error = error]

\* The dictionary of lines 36-42; the average as numerator and denominator.
DiceResult(rolls, s, c) ==
    [kind |-> "return", rolls |-> rolls, total |-> SumOf(rolls), count |-> c,
     sides |-> s, average |-> << SumOf(rolls), Len(rolls) >>, error |-> ""]

\* roll_dice(sides, count), lines 27-42.
RollDice ==
    /\ rolled = NoOutcome
    /\ IF sides < 2
       THEN rolled' = DiceError("Dice must have at least 2 sides")
       ELSE IF count < 1
       THEN rolled' = DiceError("Must roll at least 1 die")
       ELSE IF count > DiceLimit
       THEN rolled' = DiceError("Cannot roll more than 100 dice at once")
       ELSE \E rolls \in RollLists(sides, count) :
                rolled' = DiceResult(rolls, sides, count)
    /\ UNCHANGED << sides, count, number, primality, functionFrame >>

\* One call of roll_dice with arguments from the bounded sets.
InitDice ==
    /\ sub_agents = <<>>
    /\ mode = "SEQUENTIAL"
    /\ InitRun
    /\ task_instruction = <<>>
    /\ faulty = {}
    /\ ToolStart
    /\ agent_executor = "SimpleAgentExecutor"
    /\ sides \in SidesArguments
    /\ count \in CountArguments
    /\ number = 2

NextDice == RollDice

DiceSpec == InitDice /\ [][NextDice]_vars

\* ------------------------------------------------------------ tools.py: is_prime

\* The numbers is_prime is called with: negative, 0, 1 and positive.
NumberArguments == (-3)..MaxNumber

\* int(n ** 0.5) for n >= 0: the float square root is exact to the integer
\* part for the numbers of the model, so this is the integer square root.
IntSqrt(n) == CHOOSE k \in 0..n : k * k <= n /\ (k + 1) * (k + 1) > n

\* A variant of RangeStop that leaves the square root itself out.
RangeStopShort(n) == IntSqrt(n)

\* The end of range(2, int(number**0.5) + 1), line 58.
RangeStop(n) == IntSqrt(n) + 1

\* The loop of lines 58-64 from i on: the first i of the range that
\* divides n, or 0 when the range is exhausted.
RECURSIVE FirstDivisor(_, _)
FirstDivisor(n, i) ==
    IF i >= RangeStop(n) THEN 0
    ELSE IF n % i = 0 THEN i
    ELSE FirstDivisor(n, i + 1)

\* is_prime(number), lines 55-66: the dictionary returned, the divisor
\* named in the reason kept as a field of its own (0: none named).
IsPrime(n) ==
    IF n < 2
    THEN [kind |-> "return", number |-> n, is_prime |-> FALSE, divisor |-> 0,
          reason |-> "Numbers less than 2 are not prime"]
    ELSE IF FirstDivisor(n, 2) # 0
    THEN [kind |-> "return", number |-> n, is_prime |-> FALSE,
          divisor |-> FirstDivisor(n, 2), reason |-> "is divisible by"]
    ELSE [kind |-> "return", number |-> n, is_prime |-> TRUE, divisor |-> 0,
          reason |-> "is prime!"]

\* One call of is_prime.
CheckPrime ==
    /\ primality = NoVerdict
    /\ primality' = IsPrime(number)
    /\ UNCHANGED << sides, count, rolled, number, functionFrame >>

\* One call of is_prime with a number from the bounded range.
InitPrime ==
    /\ sub_agents = <<>>
    /\ mode = "SEQUENTIAL"
    /\ InitRun
    /\ task_instruction = <<>>
    /\ faulty = {}
    /\ ToolStart
    /\ agent_executor = "SimpleAgentExecutor"
    /\ sides = 6
    /\ count = 1
    /\ number \in NumberArguments

NextPrime == CheckPrime

PrimeSpec == InitPrime /\ [][NextPrime]_vars

\* ------------------------------------------------------------ properties

FromExecute(ev) == ev.src = "execute"

NotFromCancel(ev) == ev.src # "cancel"

\* What execute itself has enqueued, in order.
OwnEvents == SelectSeq(sink, FromExecute)

ThinkingEvent ==
    StateEvent("THINKING", "Analyzing task and planning agent coordination...",
               NoError, "execute")

FailedEvent(e) == StateEvent("FAILED", "Orchestration failed: ", e, "execute")

ExecuteReturned == pc = "done"

\* C1: the event stream of a run holds exactly one terminal Status event
\* (COMPLETED, FAILED or CANCELLED) and nothing follows it: no event of the
\* sink but the last is terminal, and once execute has returned the last one is.
C1_OneTerminalEventLast ==
    /\ \A i \in 1..Len(sink) : IsTerminal(sink[i]) => i = Len(sink)
    /\ ExecuteReturned => (sink # <<>> /\ IsTerminal(Last(sink)))

\* C2: an error raised inside the strategy engine never leaves execute: it
\* is held by the handler, and once execute has returned the last event
\* execute enqueued is Status{FAILED} carrying that error.
C2_ErrorsAbsorbed ==
    err # NoError =>
        /\ pc \in {"except", "done"}
        /\ ExecuteReturned => Last(OwnEvents) = FailedEvent(err)

C2_Witness ==
    /\ ExecuteReturned
    /\ err = WorkerError("b")
    /\ Last(OwnEvents) = FailedEvent(WorkerError("b"))

\* C3: when cancel is first called before any worker invocation has begun,
\* no worker is ever invoked in the run, and the run ends with CANCELLED as
\* its terminal (last) event.
C3_CancelBeforeInvocation ==
    cancelInvoked = 0 =>
        /\ invoked = <<>>
        /\ ExecuteReturned => Last(sink).state = "CANCELLED"

\* C4: once cancel has been called while the run was in progress, no further
\* worker invocation begins.
C4_NoInvocationAfterCancel ==
    [][cancelPc \notin {"none", "start", "done"} => invoked' = invoked]_vars

\* C5: the first event execute places in the sink is Status{THINKING}; no
\* worker is invoked and no Text event is in the sink before it.
C5_ThinkingFirst ==
    /\ SelectSeq(sink, NotFromCancel) # <<>> =>
           SelectSeq(sink, NotFromCancel)[1] = ThinkingEvent
    /\ invoked # <<>> => ThinkingEvent \in Range(sink)
    /\ \A i \in 1..Len(sink) :
           sink[i].type = "Text" => \E j \in 1..(i - 1) : sink[j] = ThinkingEvent

C5_Witness ==
    /\ invoked # <<>>
    /\ \E i \in 1..Len(sink) : sink[i].type = "Text" /\ sink[i].src \in AgentNames
    /\ SelectSeq(sink, NotFromCancel)[1] = ThinkingEvent

\* The fixed texts of the strings the four patterns return.
FinalAnswerTexts ==
    { "Orchestration completed. Agents executed: ",
      "All agents completed successfully in parallel!",
      "Executed agents: ",
      "Completed after iterations" }

IsFinalAnswer(ev) ==
    ev.type = "Text" /\ ev.src = "execute" /\ ev.text \in FinalAnswerTexts

HasOwn(state) == \E i \in 1..Len(OwnEvents) : OwnEvents[i].state = state

EndedStates == {"returned", "raised"}

\* C6: execute emits COMPLETED only after the strategy engine returned a
\* final answer, and the event execute emitted just before it is the Text
\* carrying exactly that answer; a run whose strategy failed emits neither a
\* final-answer Text nor COMPLETED.
C6_CompletedFollowsFinalAnswer ==
    /\ \A i \in 1..Len(OwnEvents) :
          OwnEvents[i].state = "COMPLETED" =>
              /\ result # NoResult
              /\ i > 1
              /\ OwnEvents[i - 1] =
                     TextEvent(result.text, result.names, result.n, "execute")
    /\ (err # NoError \/ HasOwn("FAILED")) =>
          /\ ~ HasOwn("COMPLETED")
          /\ \A i \in 1..Len(sink) : ~ IsFinalAnswer(sink[i])

C6_Witness ==
    /\ ExecuteReturned
    /\ Last(OwnEvents).state = "COMPLETED"
    /\ result = SynthesizeResults(<<"a", "b">>)

\* C7: in SEQUENTIAL mode, when a worker's invocation raises, the run ends
\* FAILED with that worker's error; no final answer is built or emitted from
\* the workers already recorded, and no later worker is invoked.
C7_SequentialFailure ==
    mode = "SEQUENTIAL" =>
        \A k \in 1..Len(sub_agents) :
            wstate[sub_agents[k]] = "raised" =>
                /\ err = WorkerError(sub_agents[k])
                /\ invoked = SubSeq(sub_agents, 1, k)
                /\ result = NoResult
                /\ \A i \in 1..Len(sink) : ~ IsFinalAnswer(sink[i])
                /\ ~ HasOwn("COMPLETED")
                /\ ExecuteReturned =>
                       Last(OwnEvents) = FailedEvent(WorkerError(sub_agents[k]))

C7_Witness ==
    /\ mode = "SEQUENTIAL"
    /\ sub_agents = <<"a", "b">>
    /\ wstate["a"] = "returned"
    /\ wstate["b"] = "raised"
    /\ results = <<"a">>
    /\ ExecuteReturned

\* C8: a worker whose stream ended with a FAILED status event (delivered as
\* an event, its invocation returning normally) is treated as failed: it is
\* not recorded in the results and the run does not end COMPLETED.
C8_FailedEventIsFailure ==
    \A w \in AgentNames :
        ( /\ wstate[w] = "returned"
          /\ produced[w] # <<>>
          /\ Last(produced[w]).state = "FAILED" ) =>
            /\ w \notin Range(results)
            /\ ExecuteReturned => Last(OwnEvents).state # "COMPLETED"

\* The workers whose invocation raised.
FailedWorkers == { w \in Range(sub_agents) : wstate[w] = "raised" }

\* C9: in PARALLEL mode, once execute has returned: if some invocation
\* raised, the run ended FAILED and the reported error lists exactly the
\* failed workers, each once; if none raised, the run ended COMPLETED.
C9_ParallelAggregate ==
    (mode = "PARALLEL" /\ ExecuteReturned) =>
        IF FailedWorkers # {}
        THEN /\ Last(OwnEvents).state = "FAILED"
             /\ Last(OwnEvents).err.kind = "Some agents failed: "
             /\ Range(Last(OwnEvents).err.who) = FailedWorkers
             /\ Len(Last(OwnEvents).err.who) = Cardinality(FailedWorkers)
        ELSE Last(OwnEvents).state = "COMPLETED"

C9_Witness ==
    /\ mode = "PARALLEL"
    /\ ExecuteReturned
    /\ FailedWorkers = {"a", "b"}

\* C10: in PARALLEL mode, when execute's terminal event is in the sink,
\* every launched worker's stream has ended and every event a worker
\* produced is in the sink before that terminal event.
C10_ParallelWaitsForAll ==
    mode = "PARALLEL" =>
        \A t \in 1..Len(sink) :
            (FromExecute(sink[t]) /\ IsTerminal(sink[t])) =>
                \A w \in Range(sub_agents) :
                    /\ wstate[w] \in EndedStates
                    /\ \A i \in 1..Len(sink) : sink[i].src = w => i < t
                    /\ SelectSeq(sink, LAMBDA ev : ev.src = w) = produced[w]

C10_Witness ==
    /\ mode = "PARALLEL"
    /\ ExecuteReturned
    /\ wstate["a"] = "raised"
    /\ wstate["b"] = "returned"
    /\ Len(produced["b"]) >= 2
    /\ Last(OwnEvents).state = "FAILED"

\* The events of the sink that agent w's execute_task forwarded.
ForwardedOf(w) == SelectSeq(sink, LAMBDA ev : ev.src = w)

InFlight == { w \in AgentNames : wstate[w] \in {"streaming", "forwarding"} }

\* C12: outside PARALLEL mode at most one worker invocation is in flight at
\* any time.
C12_OneInFlight == mode # "PARALLEL" => Cardinality(InFlight) <= 1

C12_Witness ==
    /\ mode = "SEQUENTIAL"
    /\ invoked = <<"a", "b">>
    /\ wstate["a"] = "returned"
    /\ InFlight = {"b"}

\* C13: in SEQUENTIAL mode the N-th instruction built is for the N-th worker
\* of the declared order, is built from results holding exactly workers
\* 1..N-1, and is the task itself.
C13_InstructionFromPriorResults ==
    mode = "SEQUENTIAL" =>
        \A n \in 1..Len(built) :
            /\ built[n].agent = sub_agents[n]
            /\ built[n].previous = SubSeq(sub_agents, 1, n - 1)
            /\ built[n].instruction = Instruction(UserMessage, <<>>)

C13_Witness ==
    /\ mode = "SEQUENTIAL"
    /\ Len(built) = 2
    /\ built[2].previous = <<"a">>

\* The selection has been made.
Routed == mode = "ROUTED" /\ pc \notin {"start", "route_select"}

\* C14: in ROUTED mode, when the selection is empty, no worker is invoked,
\* nothing fails, and the run completes with a final answer that lists no
\* agent.
C14_EmptySelectionCompletes ==
    (Routed /\ selected = <<>>) =>
        /\ invoked = <<>>
        /\ err = NoError
        /\ ExecuteReturned =>
              OwnEvents =
                  << ThinkingEvent,
                     TextEvent("Executed agents: ", <<>>, 0, "execute"),
                     StateEvent("COMPLETED",
                                "All sub-agents completed successfully!",
                                NoError, "execute") >>

C14_Witness ==
    /\ Routed /\ selected = <<>>
    /\ sub_agents = <<"a", "b">>
    /\ ExecuteReturned

\* The selected names that are configured workers, in the selected order.
KnownSelected == SelectSeq(selected, LAMBDA name : name \in Range(sub_agents))

\* C15: in ROUTED mode with the default stopping predicate at most one
\* worker is invoked, the first selected name that is a configured worker;
\* a run that returned has invoked it if there is one.
C15_RoutedStopsAfterFirst ==
    Routed =>
        /\ Len(invoked) <= 1
        /\ invoked # <<>> => (KnownSelected # <<>> /\ invoked[1] = KnownSelected[1])
        /\ (ExecuteReturned /\ KnownSelected # <<>>) =>
               invoked = << KnownSelected[1] >>

C15_Witness ==
    /\ Routed
    /\ selected = <<"b", "a">>
    /\ invoked = <<"b">>
    /\ ExecuteReturned

\* C16: every worker invoked is a configured one; in ROUTED mode a selected
\* name that is not configured is not invoked, is not in the final answer
\* and does not fail the run (only a raising invocation does).
C16_OnlyConfiguredWorkers ==
    /\ Range(invoked) \subseteq Range(sub_agents)
    /\ mode = "ROUTED" =>
          /\ Range(results) \subseteq Range(sub_agents)
          /\ Range(result.names) \subseteq Range(sub_agents)
          /\ (\A w \in AgentNames : wstate[w] # "raised") =>
                 (err = NoError /\ ~ HasOwn("FAILED"))

C16_Witness ==
    /\ Routed
    /\ selected = <<"general_agent", "a">>
    /\ invoked = <<"a">>
    /\ result.names = <<"a">>
    /\ ExecuteReturned
    /\ Last(OwnEvents).state = "COMPLETED"

IsPrefix(s, t) == Len(s) <= Len(t) /\ SubSeq(t, 1, Len(s)) = s

\* The events of rounds 1..k of the iterative pattern.
RECURSIVE Rounds(_)
Rounds(k) ==
    IF k = 0 THEN <<>>
    ELSE Rounds(k - 1) \o
         << TextEvent("--- Iteration ---", <<>>, k, "execute"),
            TextEvent("Generating...", <<>>, 0, "execute"),
            TextEvent("Reviewing...", <<>>, 0, "execute") >>

\* What execute emits in a run of k rounds that completes.
IterativeRun(k) ==
    << ThinkingEvent >> \o Rounds(k) \o
    << TextEvent("Completed after iterations", <<>>, k, "execute"),
       StateEvent("COMPLETED", "All sub-agents completed successfully!",
                  NoError, "execute") >>

\* C17: in ITERATIVE mode with max_iterations = 3 and a predicate that is
\* never true, execute emits exactly three rounds, each a generator step
\* followed by a critic step, then the answer reporting 3 iterations and
\* COMPLETED; it never fails.
C17_ThreeRoundsBestEffort ==
    (mode = "ITERATIVE" /\ satisfiedAt = 0) =>
        /\ IsPrefix(OwnEvents, IterativeRun(3))
        /\ err = NoError
        /\ ExecuteReturned => OwnEvents = IterativeRun(3)

C17_Witness ==
    /\ mode = "ITERATIVE" /\ satisfiedAt = 0
    /\ ExecuteReturned
    /\ result.n = 3

\* C18: in ITERATIVE mode, when the predicate first says True after round k,
\* execute emits exactly rounds 1..k (no step of round k+1), then the answer
\* reporting k iterations and COMPLETED.
C18_StopsWhenSatisfied ==
    (mode = "ITERATIVE" /\ satisfiedAt # 0) =>
        /\ IsPrefix(OwnEvents, IterativeRun(satisfiedAt))
        /\ ExecuteReturned => OwnEvents = IterativeRun(satisfiedAt)

C18_Witness ==
    /\ mode = "ITERATIVE" /\ satisfiedAt = 2
    /\ ExecuteReturned
    /\ result.n = 2

\* The get_client calls made so far returned val for handle w.
ClientCalls(w) ==
    { << c, i >> \in Callers \X (1..MaxCalls) :
          /\ i <= Len(hgot[c])
          /\ hgot[c][i].op = "client"
          /\ hgot[c][i].w = w }

\* C19: however many callers call get_client on a handle, and in whatever
\* order, at most one A2AClient is constructed for it and every call returns
\* that one object.
C19_OneClientPerHandle ==
    \A w \in AgentNames :
        /\ created[w] <= 1
        /\ client[w] = created[w]
        /\ \A x \in ClientCalls(w) : hgot[x[1]][x[2]].val = 1

C19_Witness ==
    /\ created["a"] = 1
    /\ hgot[1] = << Returned("client", "a", 1) >>
    /\ hgot[2] = << Returned("client", "a", 1), Returned("client", "a", 1) >>

\* C20: when a worker handle's connection fails (its invocation raises), the
\* handle's stored connection is reset to empty.
C20_FailureInvalidatesClient ==
    \A w \in AgentNames : wstate[w] = "raised" => client[w] = 0

\* C21: when a worker's invocation meets a transport failure, nothing is
\* raised to the caller of the handle (neither to the awaiting pattern nor
\* into gather's results); the handle's stream in the sink ends with a FAILED
\* event, the only one of that invocation.
C21_HandleAbsorbsTransportFailure ==
    \A w \in AgentNames :
        wstate[w] = "raised" =>
            /\ err = NoError
            /\ gathered[w] # "Exception"
            /\ ForwardedOf(w) # <<>>
            /\ Last(ForwardedOf(w)).state = "FAILED"
            /\ Cardinality({ i \in 1..Len(sink) :
                                sink[i].src = w /\ sink[i].state = "FAILED" }) = 1

\* C22: the synthesized answer lists exactly the keys of results, in
\* insertion order; in SEQUENTIAL mode the answer of a run that completes
\* names every configured worker once, in the order the workers were
\* invoked, and that answer is the Text event the run emits.
C22_SynthesisListsResults ==
    (mode = "SEQUENTIAL" /\ result # NoResult) =>
        /\ result.text = "Orchestration completed. Agents executed: "
        /\ result.names = results
        /\ result.names = sub_agents
        /\ result.names = invoked
        /\ HasOwn("COMPLETED") =>
               TextEvent(result.text, sub_agents, 0, "execute") \in Range(sink)

C22_Witness ==
    /\ mode = "SEQUENTIAL"
    /\ invoked = <<"a", "b">>
    /\ result.names = <<"a", "b">>
    /\ HasOwn("COMPLETED")

\* C23: the worker handles are those the constructor was given, with the
\* names and addresses it was given, in every state of every run: whatever
\* execute and cancel have done, and whether workers failed or not.
C23_HandlesFixed ==
    /\ Len(sub_agents) = Len(sub_agent_urls)
    /\ \A i \in 1..Len(sub_agents) :
          /\ sub_agents[i] = sub_agent_urls[i].name
          /\ url[sub_agents[i]] = sub_agent_urls[i].url
    /\ \A w \in AgentNames \ Range(sub_agents) : url[w] = ""

C23_Witness ==
    /\ sub_agents = <<"a", "b">>
    /\ cancels = 1
    /\ ExecuteReturned
    /\ wstate["a"] = "returned"
    /\ wstate["b"] = "raised"

\* The banner that announces the delegation to worker w.
Banner(w) == TextEvent("--- Delegating to ---", <<w>>, 0, "execute")

\* C25: in SEQUENTIAL mode the workers are invoked in the declared order,
\* each at most once, and a run that completes has invoked them all; in the
\* sink each worker's banner is there once, before every event forwarded
\* from that worker, and all those events are before the next worker's
\* banner.
C25_SequentialOrder ==
    mode = "SEQUENTIAL" =>
        /\ IsPrefix(invoked, sub_agents)
        /\ result # NoResult => invoked = sub_agents
        /\ \A k \in 1..Len(sub_agents) :
              /\ Cardinality({ j \in 1..Len(sink) :
                                  sink[j] = Banner(sub_agents[k]) }) <= 1
              /\ \A i \in 1..Len(sink) :
                    sink[i].src = sub_agents[k] =>
                        /\ \E j \in 1..(i - 1) : sink[j] = Banner(sub_agents[k])
                        /\ \A j \in 1..Len(sink) :
                              ( /\ k < Len(sub_agents)
                                /\ sink[j] = Banner(sub_agents[k + 1]) ) => i < j

C25_Witness ==
    /\ mode = "SEQUENTIAL"
    /\ sub_agents = <<"a", "b">>
    /\ Len(produced["a"]) = 1
    /\ Len(produced["b"]) = 1
    /\ ForwardedOf("b") = produced["b"]
    /\ Last(OwnEvents).state = "COMPLETED"

\* The gather has been reached: every task of the run has been created.
Launched == mode = "PARALLEL" /\ pc \notin {"start", "par_announce", "par_gather"}

\* C26: in PARALLEL mode every configured worker is invoked exactly once,
\* and the instruction a worker is given is made of the task and the
\* worker's own name alone, whatever the other workers did or produced.
C26_ParallelIndependent ==
    mode = "PARALLEL" =>
        /\ ~ Launched => (invoked = <<>> /\ built = <<>>)
        /\ Launched =>
              /\ invoked = sub_agents
              /\ Len(built) = Len(sub_agents)
              /\ \A i \in 1..Len(built) :
                    built[i] = [agent |-> sub_agents[i],
                                instruction |->
                                    Instruction(UserMessage, <<sub_agents[i]>>),
                                previous |-> <<>>]

C26_Witness ==
    /\ Launched
    /\ Len(built) = 2
    /\ wstate["a"] = "raised"
    /\ Len(produced["b"]) = 2
    /\ wstate["b"] = "returned"

\* The agents call r has invoked and whose stream has ended well.
DoneBy(r) == SubSeq(sub_agents, 1, runs[r].idx - 1)

\* C24: with two calls of execute on one executor, one after the other or
\* interleaved, each on its own sink: a call's results hold exactly the
\* workers that call itself has brought to an end (none when it starts),
\* its instructions are built from its own task and results, its answer
\* names its own results, and every event in its sink was enqueued by
\* that call.
C24_RunsIsolated ==
    \A r \in RunIds :
        /\ runs[r].results = DoneBy(r)
        /\ runs[r].pc = "start" => (runs[r].results = <<>> /\ runs[r].sink = <<>>)
        /\ \A i \in 1..Len(runs[r].from) : runs[r].from[i] = r
        /\ \A n \in 1..Len(runs[r].built) :
              /\ runs[r].built[n].instruction = Instruction(TaskOf(r), <<>>)
              /\ runs[r].built[n].previous = SubSeq(sub_agents, 1, n - 1)
        /\ runs[r].result # NoResult => runs[r].result.names = DoneBy(r)
        /\ Len(runs[r].sink) = Len(runs[r].from)

C24_Witness ==
    /\ sub_agents = <<"a", "b">>
    /\ runs[1].pc = "done" /\ runs[1].result.names = <<"a", "b">>
    /\ runs[2].pc = "seq_wait" /\ runs[2].results = <<"a">>
    /\ runs[2].sink # <<>>

\* C27: a call of LLMOrchestratorExecutor.execute never lets an exception
\* out, and once it has ended, execute has put a terminal status event in
\* its sink; this also when fetching a sub-agent's card fails.
C27_LLMAlwaysTerminal ==
    \A r \in RunIds :
        /\ lrun[r].pc # "propagated"
        /\ lrun[r].err # NoError =>
              \E i \in 1..Len(lrun[r].sink) :
                  /\ FromExecute(lrun[r].sink[i])
                  /\ lrun[r].sink[i].state = "FAILED"
        /\ lrun[r].pc = "done" =>
              (FromExecute(Last(lrun[r].sink)) /\ IsTerminal(Last(lrun[r].sink)))

\* The cards that calls of get_card on handle w have returned.
CardsReturned(w) ==
    { hgot[c][i].val : << c, i >> \in
          { x \in Callers \X (1..MaxCalls) :
                /\ x[2] <= Len(hgot[x[1]])
                /\ hgot[x[1]][x[2]].op = "card"
                /\ hgot[x[1]][x[2]].w = w
                /\ hgot[x[1]][x[2]].val > 0 } }

\* C28, as stated: whatever the callers of get_card and their interleaving,
\* at most one card is ever fetched for a SubAgent: all the calls that
\* returned a card returned the same one.
C28_FetchedAtMostOnce ==
    \A w \in AgentNames : Cardinality(CardsReturned(w)) <= 1

\* C28, amended: a request for the card is sent only while no card is
\* stored: once a card is stored no further request is sent and the card is
\* never emptied; the stored card is one that a fetch returned, and while
\* every fetch so far has failed or is pending nothing is stored.
C28_FetchOnlyWhileEmpty ==
    \A w \in AgentNames :
        /\ card[w] # 0 => fetches[w] = storedAt[w]
        /\ card[w] = 0 => (storedAt[w] = 0 /\ CardsReturned(w) = {})
        /\ card[w] # 0 => card[w] \in CardsReturned(w)
        /\ CardsReturned(w) \subseteq 1..fetches[w]

C28_Witness ==
    /\ hgot[1] = << Returned("card", "a", -1), Returned("card", "a", 2) >>
    /\ hgot[2] = << Returned("card", "a", 2) >>
    /\ fetches["a"] = 2
    /\ card["a"] = 2

\* What ToolUsingAgentExecutor.execute itself has enqueued, in order.
ToolOwnEvents == SelectSeq(tsink, FromExecute)

ToolThinking ==
    StateEvent("THINKING",
               "Analyzing your request and selecting appropriate tool...",
               NoError, "execute")

\* The two ways a call of execute can go, as the events it enqueues.
ToolCompletedRun ==
    << ToolThinking,
       TextEvent(tresult.text, tresult.names, tresult.n, "execute"),
       StateEvent("COMPLETED", "Task completed!", NoError, "execute") >>

ToolFailedRun ==
    << ToolThinking, StateEvent("FAILED", "Error: ", terr, "execute") >>

\* C29: what execute enqueues starts with THINKING and is, when execute has
\* returned, either THINKING, the Text with the result, COMPLETED, or
\* THINKING, FAILED with the error; never both COMPLETED and FAILED; and an
\* error raised while the message is processed is held by the handler, it
\* does not leave execute.
C29_ToolRunShape ==
    /\ tpc \in {"start", "process", "emit_completed", "except", "done"}
    /\ IF terr = NoError
       THEN IsPrefix(ToolOwnEvents, ToolCompletedRun)
       ELSE IsPrefix(ToolOwnEvents, ToolFailedRun) /\ tpc \in {"except", "done"}
    /\ tpc = "done" =>
          ToolOwnEvents = (IF terr = NoError THEN ToolCompletedRun ELSE ToolFailedRun)
    /\ tpc = "done" => (tresult = NoResult) # (terr = NoError)

C29_Witness ==
    /\ tpc = "done"
    /\ terr = ToolError("api_call")
    /\ ToolOwnEvents = ToolFailedRun
    /\ tcancels = 1

\* Whether the lowered message holds one of the two keywords.
Mentions(k1, k2) ==
    LET message_lower == Lower(task_instruction)
    IN  Contains(message_lower, k1) \/ Contains(message_lower, k2)

\* The branch the call took, from what it returned or raised.
BranchTaken ==
    IF terr # NoError THEN terr.who[1]
    ELSE CASE tresult.text = "Executed Tool 1: Tool 1 executed with param1='example input' and param2=5"
                  -> "tool_example_1"
           [] tresult.text = "Executed Tool 2: {status: success, data: sample data, processed: true}"
                  -> "tool_example_2"
           [] tresult.text = "API Call Result: Would call GET https://api.example.com/data"
                  -> "api_call"
           [] tresult.text = "Available tools:" -> "list_tools"
           [] tresult.text = "I didn't understand which tool to use for: " -> "fallback"

\* C30: once the message has been processed, the branch taken is the first
\* in the order tool 1, tool 2, api/call, list tools whose keywords the
\* lowered message holds, and the fallback when none does; with the tools
\* as shipped nothing raises and the run does not end FAILED.
C30_FirstMatchTotal ==
    tpc \in {"emit_completed", "except", "done"} =>
        LET m1 == Mentions(KwTool1, KwExample1)
            m2 == Mentions(KwTool2, KwExample2)
            m3 == Mentions(KwApi, KwCall)
            m4 == Mentions(KwListTools, KwWhatCanYouDo)
        IN  /\ m1 => BranchTaken = "tool_example_1"
            /\ (~ m1 /\ m2) => BranchTaken = "tool_example_2"
            /\ (~ m1 /\ ~ m2 /\ m3) => BranchTaken = "api_call"
            /\ (~ m1 /\ ~ m2 /\ ~ m3 /\ m4) => BranchTaken = "list_tools"
            /\ (~ m1 /\ ~ m2 /\ ~ m3 /\ ~ m4) =>
                   ( /\ BranchTaken = "fallback"
                     /\ terr = NoError
                     /\ tresult.names = task_instruction \o DefaultTools )
            /\ faulty = {} =>
                   ( /\ terr = NoError
                     /\ tresult # NoResult
                     /\ \A i \in 1..Len(tsink) : tsink[i].state # "FAILED" )

C30_Witness ==
    /\ tpc = "done"
    /\ faulty = {}
    /\ Mentions(KwTool2, KwExample2)
    /\ Mentions(KwApi, KwCall)
    /\ Mentions(KwListTools, KwWhatCanYouDo) \/ Contains(task_instruction, KwCall)
    /\ BranchTaken = "tool_example_2"
    /\ Last(ToolOwnEvents).state = "COMPLETED"

\* The events execute of the simple agent enqueued, in order.
SimpleOwnEvents == SelectSeq(simple.sink, FromExecute)

\* The events execute of the streaming agent enqueued, in order.
StreamingOwnEvents == SelectSeq(streaming.sink, FromExecute)

\* The whole run of SimpleAgentExecutor.execute on the message.
SimpleRun ==
    << AppendState("THINKING", "Processing your request...", "execute"),
       AppendText(GenerateResponse(task_instruction).text,
                  GenerateResponse(task_instruction).names, FALSE),
       AppendState("COMPLETED", "Task completed successfully!", "execute") >>

\* The whole run of StreamingAgentExecutor.execute.
StreamingRun ==
    << AppendState("THINKING", "Starting to generate response...", "execute"),
       AppendText("", << "This", " " >>, TRUE),
       AppendText("", << "is", " " >>, TRUE),
       AppendText("", << "a", " " >>, TRUE),
       AppendText("", << "streaming", " " >>, TRUE),
       AppendText("", << "response", " " >>, TRUE),
       AppendText("", << "example.", " " >>, TRUE),
       AppendState("COMPLETED", "Streaming complete!", "execute") >>

\* C31: what execute of the simple agent has enqueued is always a prefix of
\* THINKING, one Text with append = False, COMPLETED, and all three once it
\* has returned; what execute of the streaming agent has enqueued is always
\* a prefix of THINKING, the six words as Text events with append = True in
\* their order, COMPLETED, and all eight once it has returned; so neither
\* enqueues a terminal status before its last Text event.
C31_SimpleAndStreamingShape ==
    /\ IsPrefix(SimpleOwnEvents, SimpleRun)
    /\ simple.pc = "done" => SimpleOwnEvents = SimpleRun
    /\ IsPrefix(StreamingOwnEvents, StreamingRun)
    /\ streaming.pc = "done" => StreamingOwnEvents = StreamingRun
    /\ \A i \in 1..Len(SimpleOwnEvents) :
           IsTerminal(SimpleOwnEvents[i]) => i = 3
    /\ \A i \in 1..Len(StreamingOwnEvents) :
           IsTerminal(StreamingOwnEvents[i]) => i = 8

C31_Witness ==
    /\ agent_executor = "StreamingAgentExecutor"
    /\ streaming.pc = "done"
    /\ streaming.cancels = 1
    /\ Len(StreamingOwnEvents) = 8
    /\ StreamingOwnEvents[7].names = << "example.", " " >>
    /\ StreamingOwnEvents[7].append

\* C32: each call of cancel puts exactly one Status{CANCELLED} on the sink,
\* and a call made while execute is running stops the run: no event of
\* execute or of a sub-agent follows the CANCELLED event in the sink, and
\* no sub-agent invocation begins after the call.
C32_CancelStopsRun ==
    /\ Cardinality({ i \in 1..Len(sink) : sink[i].state = "CANCELLED" }) = cancels
    /\ cancelPc \notin {"none", "start", "done"} =>
          /\ \A i, j \in 1..Len(sink) :
                 (i < j /\ sink[i].state = "CANCELLED") => sink[j].src = "cancel"
          /\ Len(invoked) = cancelInvoked

\* The function each name is registered with in ToolRegistry.__init__.
FunctionRegisteredAs(tool_name) ==
    CASE tool_name = "tool_example_1" -> "tool_example_1"
      [] tool_name = "tool_example_2" -> "tool_example_2"
      [] tool_name = "api_call" -> "tool_api_call"

\* C33: every get_tool made with a name that list_tools returns has
\* returned the function registered under that name, every get_tool made
\* with another name has raised a ValueError that names it, and after any
\* lookups, successful or failing, the registry is the one constructed.
C33_LookupsTotalAndPure ==
    /\ tools = RegisteredTools
    /\ \A i \in 1..Len(lookups) :
           lookups[i].op = "get_tool" =>
               IF lookups[i].tool_name \in Range(ListTools.names)
               THEN /\ lookups[i].outcome.kind = "return"
                    /\ lookups[i].outcome.value = FunctionRegisteredAs(lookups[i].tool_name)
               ELSE /\ lookups[i].outcome.kind = "ValueError"
                    /\ lookups[i].outcome.value = lookups[i].tool_name

C33_Witness ==
    /\ Len(lookups) = 3
    /\ lookups[1] = [op |-> "get_tool_description", tool_name |-> "roll_dice",
                     outcome |-> RaiseError("KeyError", "roll_dice")]
    /\ lookups[2] = [op |-> "get_tool", tool_name |-> "Tool_Example_1",
                     outcome |-> RaiseError("ValueError", "Tool_Example_1")]
    /\ lookups[3] = [op |-> "get_tool", tool_name |-> "api_call",
                     outcome |-> ReturnValue("tool_api_call", <<>>)]
    /\ tools = RegisteredTools

\* C34: a call of roll_dice with sides < 2, count < 1 or count > 100 has
\* raised ValueError; any other call has returned exactly count rolls, each
\* an integer from 1 to sides, a total that is their sum, and the count and
\* sides it was given, so that count <= total <= count * sides.
C34_RollDiceContract ==
    rolled # NoOutcome =>
        IF sides < 2 \/ count < 1 \/ count > 100
        THEN rolled.kind = "ValueError"
        ELSE /\ rolled.kind = "return"
             /\ Len(rolled.rolls) = count
             /\ \A i \in 1..Len(rolled.rolls) : rolled.rolls[i] \in 1..sides
             /\ rolled.total = SumOf(rolled.rolls)
             /\ rolled.count = count
             /\ rolled.sides = sides
             /\ count <= rolled.total
             /\ rolled.total <= count * sides

C34_Witness ==
    /\ sides = 3
    /\ count = 3
    /\ rolled.kind = "return"
    /\ rolled.rolls = << 3, 1, 2 >>
    /\ rolled.total = 6

\* C35: is_prime reports true exactly for the numbers n >= 2 that no d with
\* 1 < d < n divides; when it reports false for a number n >= 2, the
\* divisor its reason names is the smallest divisor of n greater than 1,
\* and for a number below 2 it reports false and names none.
C35_IsPrimeExact ==
    primality # NoVerdict =>
        /\ primality.number = number
        /\ primality.is_prime <=>
               ( /\ number >= 2
                 /\ \A d \in 2..(number - 1) : number % d # 0 )
        /\ (number >= 2 /\ ~ primality.is_prime) =>
               /\ primality.divisor \in 2..(number - 1)
               /\ number % primality.divisor = 0
               /\ \A d \in 2..(primality.divisor - 1) : number % d # 0
        /\ number < 2 => primality.divisor = 0

C35_Witness ==
    /\ number = 49
    /\ primality.kind = "return"
    /\ ~ primality.is_prime
    /\ primality.divisor = 7

====
